---- MODULE Spec2Model ----
(***************************************************************************)
(* A model of limo-web3-dns: the DNS wire codec (src/dns/proto/mod.rs),    *)
(* the response builder (src/dns/mod.rs) and the UDP accept loop           *)
(* (src/main.rs).  Bytes are the naturals 0..255, byte strings and Rust    *)
(* Strings (as their UTF-8 bytes) are sequences of bytes.                  *)
(***************************************************************************)
EXTENDS Integers, Sequences, FiniteSets, TLC

VARIABLES
    pc,               \* position of the accept loop: "recv", "handle", "await", "send"
    data,             \* the datagram read by recv_from
    questions,        \* the questions parsed by handle_dns_packet
    header,           \* the response header of generate_dns_response_packet
    response_packet,  \* the body built by generate_dns_response_packet
    qi,               \* index of the question whose provider call is outstanding
    calls,            \* provider calls issued for this packet, as question indices
    returned,         \* number of provider calls that have returned
    answers,          \* what the provider returned, in order
    result,           \* the value handle_dns_packet returned
    sent,             \* the datagram handed to send_to in this iteration, if any
    input,            \* the input of a codec / name operation
    op,               \* the operation applied to input ("none" before it)
    ret,              \* what the operation returned
    trie,             \* the RuleTrie the rules are inserted into
    log,              \* the calls of insert so far, with their results
    universe          \* which strings the rules and lookups are drawn from

vars == <<pc, data, questions, header, response_packet, qi, calls, returned,
          answers, result, sent, input, op, ret, trie, log, universe>>

serverVars == <<pc, data, questions, header, response_packet, qi, calls,
                returned, answers, result, sent>>

fnVars == <<input, op, ret>>

trieVars == <<trie, log, universe>>

(***************************************************************************)
(* Bounds of the model.                                                    *)
(***************************************************************************)
MaxQuestions == 2
MaxLabels == 2

(***************************************************************************)
(* Option and nom's IResult.                                               *)
(***************************************************************************)
None == [some |-> FALSE]
Some(v) == [some |-> TRUE, v |-> v]

Err == [ok |-> FALSE]
Ok(rest, val) == [ok |-> TRUE, rest |-> rest, val |-> val]

Byte == 0..255

Tail2(s) == SubSeq(s, 3, Len(s))

\* nom::number::complete::be_u8 / be_u16 / bytes::complete::take
be_u8(i) ==
    IF Len(i) < 1 THEN Err ELSE Ok(Tail(i), i[1])

be_u16(i) ==
    IF Len(i) < 2 THEN Err ELSE Ok(Tail2(i), i[1] * 256 + i[2])

take(n, i) ==
    IF Len(i) < n THEN Err ELSE Ok(SubSeq(i, n + 1, Len(i)), SubSeq(i, 1, n))

\* u16::to_be_bytes / u32::to_be_bytes
u16_to_be_bytes(v) == << (v \div 256) % 256, v % 256 >>

u32_to_be_bytes(v) ==
    << (v \div 16777216) % 256, (v \div 65536) % 256, (v \div 256) % 256, v % 256 >>

(***************************************************************************)
(* Opcode and RCode (proto/mod.rs:87-144).                                 *)
(***************************************************************************)
Query == [tag |-> "Query", code |-> 0]
OpcodeOther(n) == [tag |-> "Other", code |-> n]

NoError == [tag |-> "NoError", code |-> 0]
FormatError == [tag |-> "FormatError", code |-> 0]
ServerFailure == [tag |-> "ServerFailure", code |-> 0]
RCodeOther(n) == [tag |-> "Other", code |-> n]

Opcode_from_u16(code) ==
    IF code = 0 THEN Query ELSE OpcodeOther(code)

u16_from_Opcode(code) ==
    IF code.tag = "Query" THEN 0 ELSE code.code

\* variant of RCode_from_u16: a code with no name of its own is a
\* ServerFailure
RCode_from_u16_named_only(code) ==
    CASE code = 0 -> NoError
      [] code = 1 -> FormatError
      [] OTHER -> ServerFailure

RCode_from_u16(code) ==
    CASE code = 0 -> NoError
      [] code = 1 -> FormatError
      [] code = 2 -> ServerFailure
      [] OTHER -> RCodeOther(code)

u16_from_RCode(code) ==
    CASE code.tag = "NoError" -> 0
      [] code.tag = "FormatError" -> 1
      [] code.tag = "ServerFailure" -> 2
      [] OTHER -> code.code

(***************************************************************************)
(* DnsFlags (proto/mod.rs:61-85).  x & mask != 0 is a test of one bit, the *)
(* or of fields that share no bit is their sum.                            *)
(***************************************************************************)
Bit(w, k) == (w \div (2 ^ k)) % 2 = 1

B2N(b) == IF b THEN 1 ELSE 0

DnsFlags_parse(i) ==
    LET r == be_u16(i)
        flags == r.val
    IN  IF ~r.ok THEN Err
        ELSE Ok(r.rest,
                [qr |-> Bit(flags, 15),
                 opcode |-> Opcode_from_u16((flags \div 2048) % 16),
                 aa |-> Bit(flags, 10),
                 tc |-> Bit(flags, 9),
                 rd |-> Bit(flags, 8),
                 ra |-> Bit(flags, 7),
                 rcode |-> RCode_from_u16(flags % 16)])

\* variant of DnsFlags_word: the opcode masked to three bits
DnsFlags_word_narrow_opcode(f) ==
      B2N(f.qr) * 32768
    + (u16_from_Opcode(f.opcode) % 8) * 2048
    + B2N(f.aa) * 1024
    + B2N(f.tc) * 512
    + B2N(f.rd) * 256
    + B2N(f.ra) * 128
    + (u16_from_RCode(f.rcode) % 16)

DnsFlags_word(f) ==
      B2N(f.qr) * 32768
    + (u16_from_Opcode(f.opcode) % 16) * 2048
    + B2N(f.aa) * 1024
    + B2N(f.tc) * 512
    + B2N(f.rd) * 256
    + B2N(f.ra) * 128
    + (u16_from_RCode(f.rcode) % 16)

DnsFlags_serialize(f) == u16_to_be_bytes(DnsFlags_word(f))

(***************************************************************************)
(* DnsHeader (proto/mod.rs:30-59).                                         *)
(***************************************************************************)
DnsHeader_parse(i) ==
    LET id == be_u16(i)
        flags == DnsFlags_parse(id.rest)
        qd_count == be_u16(flags.rest)
        an_count == be_u16(qd_count.rest)
        ns_count == be_u16(an_count.rest)
        ar_count == be_u16(ns_count.rest)
    IN  IF ~id.ok THEN Err
        ELSE IF ~flags.ok THEN Err
        ELSE IF ~qd_count.ok THEN Err
        ELSE IF ~an_count.ok THEN Err
        ELSE IF ~ns_count.ok THEN Err
        ELSE IF ~ar_count.ok THEN Err
        ELSE Ok(ar_count.rest,
                [id |-> id.val,
                 flags |-> flags.val,
                 qd_count |-> qd_count.val,
                 an_count |-> an_count.val,
                 ns_count |-> ns_count.val,
                 ar_count |-> ar_count.val])

\* variant of DnsHeader_serialize: an_count written before qd_count
DnsHeader_serialize_counts_swapped(h) ==
       u16_to_be_bytes(h.id)
    \o DnsFlags_serialize(h.flags)
    \o u16_to_be_bytes(h.an_count)
    \o u16_to_be_bytes(h.qd_count)
    \o <<0, 0, 0, 0>>

DnsHeader_serialize(h) ==
       u16_to_be_bytes(h.id)
    \o DnsFlags_serialize(h.flags)
    \o u16_to_be_bytes(h.qd_count)
    \o u16_to_be_bytes(h.an_count)
    \o <<0, 0, 0, 0>>

(***************************************************************************)
(* String::from_utf8: the std validation of UTF-8 (shortest form, no       *)
(* surrogates, at most U+10FFFF).                                          *)
(***************************************************************************)
Cont(b) == b >= 128 /\ b <= 191

RECURSIVE Utf8Valid(_)
Utf8Valid(b) ==
    IF b = <<>> THEN TRUE
    ELSE LET c == b[1]
             n == Len(b)
         IN  IF c < 128 THEN Utf8Valid(Tail(b))
             ELSE IF c >= 194 /\ c <= 223
             THEN n >= 2 /\ Cont(b[2]) /\ Utf8Valid(SubSeq(b, 3, n))
             ELSE IF c >= 224 /\ c <= 239
             THEN /\ n >= 3
                  /\ Cont(b[2]) /\ Cont(b[3])
                  /\ (c = 224 => b[2] >= 160)
                  /\ (c = 237 => b[2] <= 159)
                  /\ Utf8Valid(SubSeq(b, 4, n))
             ELSE IF c >= 240 /\ c <= 244
             THEN /\ n >= 4
                  /\ Cont(b[2]) /\ Cont(b[3]) /\ Cont(b[4])
                  /\ (c = 240 => b[2] >= 144)
                  /\ (c = 244 => b[2] <= 143)
                  /\ Utf8Valid(SubSeq(b, 5, n))
             ELSE FALSE

String_from_utf8(bytes) == IF Utf8Valid(bytes) THEN Some(bytes) ELSE None

(***************************************************************************)
(* DnsLabel and DnsName (proto/mod.rs:146-277).  A label is its bytes, a   *)
(* name the sequence of its labels.                                        *)
(***************************************************************************)
\* variant of DnsLabel_parse: a label with a byte outside ASCII is a parse
\* error
DnsLabel_parse_ascii_checked(i) ==
    LET len == be_u8(i)
        label == take(len.val, len.rest)
    IN  IF ~len.ok THEN Err
        ELSE IF ~label.ok THEN Err
        ELSE IF \E k \in 1..Len(label.val) : label.val[k] >= 128 THEN Err
        ELSE Ok(label.rest, label.val)

DnsLabel_parse(i) ==
    LET len == be_u8(i)
        label == take(len.val, len.rest)
    IN  IF ~len.ok THEN Err
        ELSE IF ~label.ok THEN Err
        ELSE Ok(label.rest, label.val)

DnsLabel_serialize(label) == <<Len(label) % 256>> \o label

RECURSIVE DnsName_parse_loop(_, _)
DnsName_parse_loop(remaining_input, labels) ==
    LET r == DnsLabel_parse(remaining_input)
    IN  IF ~r.ok THEN Err
        ELSE IF r.val = <<>> THEN Ok(r.rest, labels)
        ELSE DnsName_parse_loop(r.rest, Append(labels, r.val))

DnsName_parse(i) == DnsName_parse_loop(i, <<>>)

RECURSIVE DnsName_serialize_labels(_)
DnsName_serialize_labels(labels) ==
    IF labels = <<>> THEN <<>>
    ELSE DnsLabel_serialize(Head(labels)) \o DnsName_serialize_labels(Tail(labels))

\* variant of DnsName_serialize: the null byte that ends the name is left out
DnsName_serialize_no_terminator(labels) == DnsName_serialize_labels(labels)

DnsName_serialize(labels) == DnsName_serialize_labels(labels) \o <<0>>

\* DnsName::is_label_of (proto/mod.rs:199-217): the two iterators walk both
\* label lists from the front.
RECURSIVE is_label_of_loop(_, _)
is_label_of_loop(self_iter, other_iter) ==
    IF self_iter # <<>> /\ other_iter # <<>>
    THEN IF Head(self_iter) # Head(other_iter) THEN FALSE
         ELSE is_label_of_loop(Tail(self_iter), Tail(other_iter))
    ELSE IF self_iter # <<>> THEN FALSE
    ELSE TRUE

\* variant of is_label_of: self is compared with the last labels of other
is_label_of_trailing(self, other) ==
    IF Len(self) > Len(other) THEN FALSE
    ELSE is_label_of_loop(self, SubSeq(other, Len(other) - Len(self) + 1, Len(other)))

is_label_of(self, other) ==
    IF Len(self) > Len(other) THEN FALSE ELSE is_label_of_loop(self, other)

\* DnsName::remove_prefix_labels (proto/mod.rs:219-241)
RECURSIVE remove_prefix_labels_loop(_, _, _)
remove_prefix_labels_loop(self_iter, prefix_iter, new_labels) ==
    IF self_iter # <<>> /\ prefix_iter # <<>>
    THEN IF Head(self_iter) # Head(prefix_iter) THEN None
         ELSE remove_prefix_labels_loop(Tail(self_iter), Tail(prefix_iter), new_labels)
    ELSE IF self_iter # <<>>
    THEN remove_prefix_labels_loop(Tail(self_iter), prefix_iter,
                                   Append(new_labels, Head(self_iter)))
    ELSE IF prefix_iter # <<>> THEN None
    ELSE Some(new_labels)

remove_prefix_labels(self, prefix) ==
    IF ~is_label_of(self, prefix) THEN None
    ELSE remove_prefix_labels_loop(self, prefix, <<>>)

\* b"xn--"
AcePrefix == <<120, 110, 45, 45>>

\* punycode::decode of the external punycode crate: its outcome on an ACE
\* body is not decided by this repository, the oracle fixes one per body.
punycode_decode_crate(s, oracle) == oracle[s]

\* DnsLabel::punycode_decode (proto/mod.rs:157-166)
DnsLabel_punycode_decode(label, oracle) ==
    IF Len(label) >= 4 /\ SubSeq(label, 1, 4) = AcePrefix
    THEN LET s == String_from_utf8(SubSeq(label, 5, Len(label)))
         IN  IF ~s.some THEN None ELSE punycode_decode_crate(s.v, oracle)
    ELSE String_from_utf8(DnsLabel_serialize(label))

\* Vec<String>::join(".")
RECURSIVE join(_, _)
join(strs, sep) ==
    IF strs = <<>> THEN <<>>
    ELSE IF Len(strs) = 1 THEN strs[1]
    ELSE strs[1] \o sep \o join(Tail(strs), sep)

\* DnsName::punycode_decode (proto/mod.rs:243-250)
RECURSIVE DnsName_punycode_decode_loop(_, _, _)
DnsName_punycode_decode_loop(labels, decoded_labels, oracle) ==
    IF labels = <<>> THEN Some(join(decoded_labels, <<46>>))
    ELSE LET decoded == DnsLabel_punycode_decode(Head(labels), oracle)
         IN  IF ~decoded.some THEN None
             ELSE DnsName_punycode_decode_loop(Tail(labels),
                      Append(decoded_labels, decoded.v), oracle)

DnsName_punycode_decode(labels, oracle) ==
    DnsName_punycode_decode_loop(labels, <<>>, oracle)

(***************************************************************************)
(* DnsQuestion as the response builder parses and writes it                *)
(* (dns/mod.rs:40-59).                                                     *)
(***************************************************************************)
parse_dns_question(i) ==
    LET qname == DnsName_parse(i)
        qtype == be_u16(qname.rest)
        qclass == be_u16(qtype.rest)
    IN  IF ~qname.ok THEN Err
        ELSE IF ~qtype.ok THEN Err
        ELSE IF ~qclass.ok THEN Err
        ELSE Ok(qclass.rest,
                [qname |-> qname.val, qtype |-> qtype.val, qclass |-> qclass.val])

serialize_dns_question(question) ==
       DnsName_serialize(question.qname)
    \o u16_to_be_bytes(question.qtype)
    \o u16_to_be_bytes(question.qclass)

(***************************************************************************)
(* The multiaddr text form, as answer.parse::<Multiaddr>() reads it        *)
(* (dns/mod.rs:89): "/"-separated protocol names, each followed by its     *)
(* argument.  The protocols modelled are ip4, ip6, tcp and udp; IPv6 text  *)
(* is hex groups with at most one "::" (no embedded dotted quad).          *)
(***************************************************************************)
RECURSIVE Split_loop(_, _, _, _)
Split_loop(s, sep, cur, acc) ==
    IF s = <<>> THEN Append(acc, cur)
    ELSE IF Head(s) = sep THEN Split_loop(Tail(s), sep, <<>>, Append(acc, cur))
    ELSE Split_loop(Tail(s), sep, Append(cur, Head(s)), acc)

\* str::split(sep)
Split(s, sep) == Split_loop(s, sep, <<>>, <<>>)

IsDigit(c) == c >= 48 /\ c <= 57

AllDigits(s) == \A i \in 1..Len(s) : IsDigit(s[i])

RECURSIVE DecValue(_, _)
DecValue(s, acc) ==
    IF s = <<>> THEN acc ELSE DecValue(Tail(s), acc * 10 + (Head(s) - 48))

IsDecOctet(p) ==
    /\ Len(p) >= 1 /\ Len(p) <= 3
    /\ AllDigits(p)
    /\ (Len(p) > 1 => p[1] # 48)
    /\ DecValue(p, 0) <= 255

Ipv4Addr_from_parts(parts) ==
    IF Len(parts) = 4 /\ \A i \in 1..4 : IsDecOctet(parts[i])
    THEN Some([i \in 1..4 |-> DecValue(parts[i], 0)])
    ELSE None

\* Ipv4Addr::from_str
Ipv4Addr_from_str(s) == Ipv4Addr_from_parts(Split(s, 46))

HexVal(c) ==
    IF c >= 48 /\ c <= 57 THEN c - 48
    ELSE IF c >= 97 /\ c <= 102 THEN c - 87
    ELSE IF c >= 65 /\ c <= 70 THEN c - 55
    ELSE -1

IsHexGroup(p) ==
    /\ Len(p) >= 1 /\ Len(p) <= 4
    /\ \A i \in 1..Len(p) : HexVal(p[i]) >= 0

RECURSIVE HexValue(_, _)
HexValue(s, acc) ==
    IF s = <<>> THEN acc ELSE HexValue(Tail(s), acc * 16 + HexVal(Head(s)))

GroupOctets(groups) ==
    [k \in 1..16 |->
        IF k % 2 = 1 THEN HexValue(groups[(k + 1) \div 2], 0) \div 256
        ELSE HexValue(groups[(k + 1) \div 2], 0) % 256]

SplitGroups(s) == IF s = <<>> THEN <<>> ELSE Split(s, 58)

\* the groups before and after the "::" of an IPv6 text
Ipv6Addr_from_groups(headg, tailg) ==
    IF /\ Len(headg) + Len(tailg) <= 7
       /\ \A k \in 1..Len(headg) : IsHexGroup(headg[k])
       /\ \A k \in 1..Len(tailg) : IsHexGroup(tailg[k])
    THEN Some(GroupOctets(headg
                  \o [k \in 1..(8 - Len(headg) - Len(tailg)) |-> <<48>>]
                  \o tailg))
    ELSE None

Ipv6Addr_from_full(parts) ==
    IF Len(parts) = 8 /\ \A i \in 1..8 : IsHexGroup(parts[i])
    THEN Some(GroupOctets(parts))
    ELSE None

Ipv6Addr_split_at(s, i) ==
    Ipv6Addr_from_groups(SplitGroups(SubSeq(s, 1, i - 1)),
                         SplitGroups(SubSeq(s, i + 2, Len(s))))

Ipv6Addr_from_colons(s, dc) ==
    IF dc = {} THEN Ipv6Addr_from_full(Split(s, 58))
    ELSE Ipv6Addr_split_at(s, CHOOSE i \in dc : \A j \in dc : i <= j)

\* Ipv6Addr::from_str
Ipv6Addr_from_str(s) ==
    Ipv6Addr_from_colons(s, {i \in 1..(Len(s) - 1) : s[i] = 58 /\ s[i + 1] = 58})

u16_from_digits(d) ==
    IF d # <<>> /\ Len(d) <= 8 /\ AllDigits(d) /\ DecValue(d, 0) <= 65535
    THEN Some(DecValue(d, 0))
    ELSE None

\* str::parse::<u16>()
u16_from_str(s) ==
    u16_from_digits(IF s # <<>> /\ s[1] = 43 THEN Tail(s) ELSE s)

Protocol_of(a, proto, size) ==
    IF a.some THEN Some([proto |-> proto, arg |-> a.v, size |-> size]) ELSE None

Port_bytes(a) == IF a.some THEN Some(u16_to_be_bytes(a.v)) ELSE None

\* Protocol::from_str_parts for one protocol name and its argument
Protocol_from_str_parts(name, arg) ==
    IF name = <<105, 112, 52>> THEN Protocol_of(Ipv4Addr_from_str(arg), "Ip4", 5)
    ELSE IF name = <<105, 112, 54>> THEN Protocol_of(Ipv6Addr_from_str(arg), "Ip6", 17)
    ELSE IF name = <<116, 99, 112>> THEN Protocol_of(Port_bytes(u16_from_str(arg)), "Tcp", 3)
    ELSE IF name = <<117, 100, 112>> THEN Protocol_of(Port_bytes(u16_from_str(arg)), "Udp", 4)
    ELSE None

\* the loop of Multiaddr::from_str over the parts
RECURSIVE Multiaddr_protocols(_, _)
RECURSIVE Multiaddr_push(_, _, _)
Multiaddr_push(p, rest, acc) ==
    IF ~p.some THEN Err ELSE Multiaddr_protocols(rest, Append(acc, p.v))

Multiaddr_protocols(parts, acc) ==
    IF parts = <<>> THEN Ok(<<>>, acc)
    ELSE IF Len(parts) < 2 THEN Err
    ELSE Multiaddr_push(Protocol_from_str_parts(parts[1], parts[2]),
                        SubSeq(parts, 3, Len(parts)), acc)

Multiaddr_from_parts(parts) ==
    IF Head(parts) # <<>> THEN Err ELSE Multiaddr_protocols(Tail(parts), <<>>)

\* Multiaddr::from_str: the text starts with "/"
Multiaddr_from_str(s) == Multiaddr_from_parts(Split(s, 47))

\* Multiaddr::len: the length in bytes of the binary form
RECURSIVE Multiaddr_len(_)
Multiaddr_len(x) ==
    IF x = <<>> THEN 0 ELSE Head(x).size + Multiaddr_len(Tail(x))

\* variant of select_protocol: an address of either family is selected
select_protocol_any_ip(T, p) ==
    IF p.proto \in {"Ip4", "Ip6"} THEN Some(p) ELSE None

\* SelectCorrectMultiAddrProtocol::select_protocol (dns/mod.rs:66-85)
select_protocol(T, p) ==
    IF T = "Ipv4Addr" /\ p.proto = "Ip4" THEN Some(p)
    ELSE IF T = "Ipv6Addr" /\ p.proto = "Ip6" THEN Some(p)
    ELSE None

\* map_err(..).and_then(closure) of handle_ip4_ip6_question (dns/mod.rs:89-98)
and_then_first_protocol(T, x) ==
    IF ~x.ok THEN None
    ELSE IF Multiaddr_len(x.val) < 2 THEN None
    ELSE IF x.val = <<>> THEN None
    ELSE select_protocol(T, Head(x.val))

multiaddr_ip_query(T, answer) ==
    and_then_first_protocol(T, Multiaddr_from_str(answer))

\* the match of handle_ip4_ip6_question (dns/mod.rs:99-116)
match_ip_query(q) ==
    IF q.some /\ q.v.proto = "Ip4"
    THEN [answers |-> 1, response_packet |-> u16_to_be_bytes(4) \o q.v.arg]
    ELSE IF q.some /\ q.v.proto = "Ip6"
    THEN [answers |-> 1, response_packet |-> u16_to_be_bytes(16) \o q.v.arg]
    ELSE [answers |-> 0, response_packet |-> <<>>]

\* handle_ip4_ip6_question (dns/mod.rs:86-117)
handle_ip4_ip6_question(T, answer) == match_ip_query(multiaddr_ip_query(T, answer))

(***************************************************************************)
(* The response builder (dns/mod.rs:119-225).                              *)
(***************************************************************************)
QCLASS_IN == 1
TTL == 300
QTYPE_TXT == 16
QTYPE_A == 1
QTYPE_AAAA == 28

\* variant of response_flags: the request's flags with qr and ra set
response_flags_from_request(original_header) ==
    [original_header.flags EXCEPT !.qr = TRUE, !.ra = TRUE]

\* the flags and header generate_dns_response_packet starts from
\* (dns/mod.rs:124-140)
response_flags(original_header) ==
    [qr |-> TRUE, opcode |-> Query, aa |-> FALSE, tc |-> FALSE,
     rd |-> original_header.flags.rd, ra |-> TRUE, rcode |-> NoError]

response_header(qs, original_header) ==
    [id |-> original_header.id,
     flags |-> response_flags(original_header),
     qd_count |-> Len(qs) % 65536,
     an_count |-> 0,
     ar_count |-> 0,
     ns_count |-> 0]

\* variant of serialize_questions: the questions are written last first
RECURSIVE serialize_questions_reversed(_)
serialize_questions_reversed(qs) ==
    IF qs = <<>> THEN <<>>
    ELSE serialize_questions_reversed(Tail(qs)) \o serialize_dns_question(Head(qs))

\* "Serialize questions" (dns/mod.rs:145-148)
RECURSIVE serialize_questions(_)
serialize_questions(qs) ==
    IF qs = <<>> THEN <<>>
    ELSE serialize_dns_question(Head(qs)) \o serialize_questions(Tail(qs))

\* NAME | TYPE | CLASS | TTL of an answer record
record_head(question, qtype) ==
       DnsName_serialize(question.qname)
    \o u16_to_be_bytes(qtype)
    \o u16_to_be_bytes(QCLASS_IN)
    \o u32_to_be_bytes(TTL)

\* variant of append_ip_record: NAME, TYPE, CLASS and TTL are written only
\* when the answer gives a record
append_ip_record_head_with_rdata(h, packet, question, r) ==
    [header |-> [h EXCEPT !.an_count = @ + r.answers],
     response_packet |->
         IF r.answers = 0 THEN packet
         ELSE packet \o record_head(question, question.qtype) \o r.response_packet]

\* variant of append_ip_record: an answer is counted whenever the head of a
\* record is written
append_ip_record_counts_head(h, packet, question, r) ==
    [header |-> [h EXCEPT !.an_count = @ + 1],
     response_packet |->
         packet \o record_head(question, question.qtype) \o r.response_packet]

\* header.an_count += ret.answers; response_packet.extend(ret.response_packet)
\* (dns/mod.rs:171-177, 179-185)
append_ip_record(h, packet, question, r) ==
    [header |-> [h EXCEPT !.an_count = @ + r.answers],
     response_packet |->
         packet \o record_head(question, question.qtype) \o r.response_packet]

\* variant of append_txt_record: RDLENGTH without the +1 of the length byte
append_txt_record_short_rdlength(h, packet, question, txt_data) ==
    [header |-> [h EXCEPT !.an_count = @ + 1],
     response_packet |->
            packet
         \o record_head(question, QTYPE_TXT)
         \o u16_to_be_bytes(Len(txt_data) % 65536)
         \o <<Len(txt_data) % 256>>
         \o txt_data]

\* variant of append_txt_record: an answer of more than 255 bytes is cut to
\* the 255 bytes one character-string holds
append_txt_record_one_string(h, packet, question, txt_data) ==
    [header |-> [h EXCEPT !.an_count = @ + 1],
     response_packet |->
            packet
         \o record_head(question, QTYPE_TXT)
         \o u16_to_be_bytes(IF Len(txt_data) > 255 THEN 256 ELSE Len(txt_data) + 1)
         \o <<IF Len(txt_data) > 255 THEN 255 ELSE Len(txt_data)>>
         \o (IF Len(txt_data) > 255 THEN SubSeq(txt_data, 1, 255) ELSE txt_data)]

\* the TXT record (dns/mod.rs:158-168)
append_txt_record(h, packet, question, txt_data) ==
    [header |-> [h EXCEPT !.an_count = @ + 1],
     response_packet |->
            packet
         \o record_head(question, QTYPE_TXT)
         \o u16_to_be_bytes((Len(txt_data) + 1) % 65536)
         \o <<Len(txt_data) % 256>>
         \o txt_data]

\* variant of append_answer: the record head of a TXT question is written
\* before the answer is looked at
append_answer_head_first(h, packet, question, ans) ==
    IF ~ans.some
    THEN [header |-> h,
          response_packet |->
              IF question.qtype = QTYPE_TXT
              THEN packet \o record_head(question, QTYPE_TXT)
              ELSE packet]
    ELSE IF question.qtype = QTYPE_TXT
    THEN append_txt_record(h, packet, question, ans.v)
    ELSE IF question.qtype = QTYPE_A
    THEN append_ip_record(h, packet, question,
                          handle_ip4_ip6_question("Ipv4Addr", ans.v))
    ELSE IF question.qtype = QTYPE_AAAA
    THEN append_ip_record(h, packet, question,
                          handle_ip4_ip6_question("Ipv6Addr", ans.v))
    ELSE [header |-> h, response_packet |-> packet]

\* variant of append_answer: a question of any other type is answered as TXT
append_answer_txt_fallback(h, packet, question, ans) ==
    IF ~ans.some THEN [header |-> h, response_packet |-> packet]
    ELSE IF question.qtype = QTYPE_A
    THEN append_ip_record(h, packet, question,
                          handle_ip4_ip6_question("Ipv4Addr", ans.v))
    ELSE IF question.qtype = QTYPE_AAAA
    THEN append_ip_record(h, packet, question,
                          handle_ip4_ip6_question("Ipv6Addr", ans.v))
    ELSE append_txt_record(h, packet, question, ans.v)

\* the body of the answer loop for one question, once its provider call
\* has returned ans (dns/mod.rs:153-187)
append_answer(h, packet, question, ans) ==
    IF ~ans.some THEN [header |-> h, response_packet |-> packet]
    ELSE IF question.qtype = QTYPE_TXT
    THEN append_txt_record(h, packet, question, ans.v)
    ELSE IF question.qtype = QTYPE_A
    THEN append_ip_record(h, packet, question,
                          handle_ip4_ip6_question("Ipv4Addr", ans.v))
    ELSE IF question.qtype = QTYPE_AAAA
    THEN append_ip_record(h, packet, question,
                          handle_ip4_ip6_question("Ipv6Addr", ans.v))
    ELSE [header |-> h, response_packet |-> packet]

\* the end of generate_dns_response_packet (dns/mod.rs:190-193)
finish_packet(h, packet) == DnsHeader_serialize(h) \o packet

\* variant of parse_questions: a failed parse discards the questions parsed
\* before it
RECURSIVE parse_questions_discard_all(_, _, _)
parse_questions_discard_all(n, i, qs) ==
    IF n = 0 THEN qs
    ELSE LET r == parse_dns_question(i)
         IN  IF r.ok THEN parse_questions_discard_all(n - 1, r.rest, Append(qs, r.val))
             ELSE <<>>

\* the fold of handle_dns_packet over 0..qd_count (dns/mod.rs:202-214): a
\* failed parse keeps the input and the questions, and the fold goes on
RECURSIVE parse_questions(_, _, _)
parse_questions(n, i, qs) ==
    IF n = 0 THEN qs
    ELSE LET r == parse_dns_question(i)
         IN  IF r.ok THEN parse_questions(n - 1, r.rest, Append(qs, r.val))
             ELSE parse_questions(n - 1, i, qs)

(***************************************************************************)
(* Inputs of the accept loop: datagrams and provider answers.              *)
(***************************************************************************)
RECURSIVE Concat(_)
Concat(ss) == IF ss = <<>> THEN <<>> ELSE Head(ss) \o Concat(Tail(ss))

\* wire form of ("a", TXT, IN), ("a.bc", A, IN), ("bc", AAAA, IN),
\* (".", TXT, ANY) and ("a", type 255, class 3)
QuestionWires ==
    { <<1, 97, 0, 0, 16, 0, 1>>,
      <<1, 97, 2, 98, 99, 0, 0, 1, 0, 1>>,
      <<2, 98, 99, 0, 0, 28, 0, 1>>,
      <<0, 0, 16, 0, 255>>,
      <<1, 97, 0, 0, 255, 0, 3>> }

\* id and flags word, then an_count, ns_count, ar_count of a request
HeaderTemplates ==
    { << <<18, 52, 0, 0>>, <<0, 0, 0, 0, 0, 0>> >>,
      << <<255, 255, 255, 255>>, <<0, 7, 0, 9, 0, 1>> >> }

Bodies ==
    { Concat(ws) : ws \in UNION { [1..n -> QuestionWires] : n \in 0..MaxQuestions } }

FullRequests ==
    { t[1] \o <<0, qd>> \o t[2] \o b :
        t \in HeaderTemplates, qd \in 0..(MaxQuestions + 1), b \in Bodies }

\* every datagram is a prefix of a well-formed request: the whole of it, or
\* one cut short inside the header or inside a question
Requests ==
    UNION { { SubSeq(r, 1, k) : k \in 0..Len(r) } : r \in FullRequests }

\* "", "hi", "/ip4/1.2.3.4", "/ip4/10.0.0.255/udp/53", "/ip6/::1/tcp/80"
ProviderAnswers ==
    { None,
      Some(<<>>),
      Some(<<104, 105>>),
      Some(<<47, 105, 112, 52, 47, 49, 46, 50, 46, 51, 46, 52>>),
      Some(<<47, 105, 112, 52, 47, 49, 48, 46, 48, 46, 48, 46, 50, 53, 53, 47, 117, 100, 112, 47, 53, 51>>),
      Some(<<47, 105, 112, 54, 47, 58, 58, 49, 47, 116, 99, 112, 47, 56, 48>>) }

NoHeader ==
    [id |-> 0,
     flags |-> [qr |-> FALSE, opcode |-> Query, aa |-> FALSE, tc |-> FALSE,
                rd |-> FALSE, ra |-> FALSE, rcode |-> NoError],
     qd_count |-> 0, an_count |-> 0, ar_count |-> 0, ns_count |-> 0]

NoInput == [kind |-> "none"]

ServerInit ==
    /\ pc = "recv"
    /\ data = <<>>
    /\ questions = <<>>
    /\ header = NoHeader
    /\ response_packet = <<>>
    /\ qi = 0
    /\ calls = <<>>
    /\ returned = 0
    /\ answers = <<>>
    /\ result = <<>>
    /\ sent = None

\* no RuleTrie is built
NoTrie ==
    /\ trie = <<>>
    /\ log = <<>>
    /\ universe = "none"

Init ==
    /\ ServerInit
    /\ NoTrie
    /\ input = NoInput
    /\ op = "none"
    /\ ret = None

(***************************************************************************)
(* The accept loop of main (main.rs:111-120) around handle_dns_packet and  *)
(* generate_dns_response_packet.  An action runs the code from one         *)
(* suspension point to the next.                                           *)
(***************************************************************************)

\* variant of RecvFrom: a datagram is also read while a provider call of the
\* datagram before it is outstanding
RecvFrom_while_awaiting ==
    /\ pc \in {"recv", "await"}
    /\ \E d \in Requests : data' = d
    /\ pc' = "handle"
    /\ UNCHANGED <<questions, header, response_packet, qi, calls, returned,
                   answers, result, sent, fnVars, trieVars>>

\* socket.recv_from (main.rs:112-113)
RecvFrom ==
    /\ pc = "recv"
    /\ \E d \in Requests : data' = d
    /\ pc' = "handle"
    /\ UNCHANGED <<questions, header, response_packet, qi, calls, returned,
                   answers, result, sent, fnVars, trieVars>>

\* variant of GenerateStart: every provider call is issued before the first
\* one is awaited
GenerateStart_all_calls(qs, hd, body) ==
    /\ questions' = qs
    /\ header' = hd
    /\ response_packet' = body
    /\ IF qs = <<>>
       THEN /\ result' = finish_packet(hd, body)
            /\ pc' = "send"
            /\ UNCHANGED <<qi, calls>>
       ELSE /\ qi' = 1
            /\ calls' = [i \in 1..Len(qs) |-> i]
            /\ pc' = "await"
            /\ UNCHANGED result

\* generate_dns_response_packet from its start to its first provider call,
\* or to its end when there is no question (dns/mod.rs:124-151, 190-193)
GenerateStart(qs, hd, body) ==
    /\ questions' = qs
    /\ header' = hd
    /\ response_packet' = body
    /\ IF qs = <<>>
       THEN /\ result' = finish_packet(hd, body)
            /\ pc' = "send"
            /\ UNCHANGED <<qi, calls>>
       ELSE /\ qi' = 1
            /\ calls' = Append(calls, 1)
            /\ pc' = "await"
            /\ UNCHANGED result

Generate(qs, original_header) ==
    GenerateStart(qs, response_header(qs, original_header), serialize_questions(qs))

\* the match on DnsHeader::parse of handle_dns_packet (dns/mod.rs:198-224)
HandleParsed(h) ==
    IF ~h.ok
    THEN /\ result' = <<>>
         /\ pc' = "send"
         /\ UNCHANGED <<questions, header, response_packet, qi, calls>>
    ELSE Generate(IF h.val.qd_count > 0
                  THEN parse_questions(h.val.qd_count, h.rest, <<>>)
                  ELSE <<>>,
                  h.val)

\* handle_dns_packet up to the first provider call of
\* generate_dns_response_packet, or to its end when there is none
\* (dns/mod.rs:197-225)
HandleDnsPacket ==
    /\ pc = "handle"
    /\ HandleParsed(DnsHeader_parse(data))
    /\ UNCHANGED <<data, returned, answers, sent, fnVars, trieVars>>

\* the rest of the loop of generate_dns_response_packet after a provider
\* call: the next call, or the end of the function (dns/mod.rs:150-151,
\* 188-193)
AfterAnswer(r) ==
    /\ header' = r.header
    /\ response_packet' = r.response_packet
    /\ IF qi < Len(questions)
       THEN /\ qi' = qi + 1
            /\ calls' = Append(calls, qi + 1)
            /\ pc' = "await"
            /\ UNCHANGED result
       ELSE /\ result' = finish_packet(r.header, r.response_packet)
            /\ pc' = "send"
            /\ UNCHANGED <<qi, calls>>

\* answer_provider.get_answer_async returns ans: the rest of the loop body
\* for this question, then the next call or the end of
\* generate_dns_response_packet (dns/mod.rs:151-193)
GetAnswerReturns ==
    /\ pc = "await"
    /\ \E ans \in ProviderAnswers :
         /\ returned' = returned + 1
         /\ answers' = Append(answers, ans)
         /\ AfterAnswer(append_answer(header, response_packet, questions[qi], ans))
    /\ UNCHANGED <<data, questions, sent, fnVars, trieVars>>

\* variant of SendTo: the result is sent whether it is empty or not
SendTo_unconditional ==
    /\ pc = "send"
    /\ sent' = Some(result)
    /\ pc' = "sent"
    /\ UNCHANGED <<data, questions, header, response_packet, qi, calls,
                   returned, answers, result, fnVars, trieVars>>

\* if !response_packet.is_empty() { socket.send_to(..) } (main.rs:117-119)
SendTo ==
    /\ pc = "send"
    /\ sent' = IF result # <<>> THEN Some(result) ELSE None
    /\ pc' = "sent"
    /\ UNCHANGED <<data, questions, header, response_packet, qi, calls,
                   returned, answers, result, fnVars, trieVars>>

\* the end of the loop body: the locals of this iteration are dropped
\* (main.rs:111, 120)
NextIteration ==
    /\ pc = "sent"
    /\ pc' = "recv"
    /\ data' = <<>>
    /\ questions' = <<>>
    /\ header' = NoHeader
    /\ response_packet' = <<>>
    /\ qi' = 0
    /\ calls' = <<>>
    /\ returned' = 0
    /\ answers' = <<>>
    /\ result' = <<>>
    /\ sent' = None
    /\ UNCHANGED <<fnVars, trieVars>>

Next ==
    \/ RecvFrom
    \/ HandleDnsPacket
    \/ GetAnswerReturns
    \/ SendTo
    \/ NextIteration

Spec == Init /\ [][Next]_vars

(***************************************************************************)
(* DnsName and DnsLabel operations applied to drawn names: SpecName.       *)
(***************************************************************************)
\* "a", "b", a byte that is no UTF-8, and "xn--a"
Labels == { <<97>>, <<98>>, <<255>>, <<120, 110, 45, 45, 97>> }

Names == UNION { [1..n -> Labels] : n \in 0..MaxLabels }

IsAce(label) == Len(label) >= 4 /\ SubSeq(label, 1, 4) = AcePrefix

AceBodies == { SubSeq(l, 5, Len(l)) : l \in { x \in Labels : IsAce(x) } }

\* what punycode::decode may return for an ACE body: an error, or a String
Oracles == [AceBodies -> { None, Some(<<195, 169>>) }]

NameInputs == [kind : {"names"}, self : Names, other : Names, oracle : Oracles]

InitName ==
    /\ ServerInit
    /\ NoTrie
    /\ input \in NameInputs
    /\ op = "none"
    /\ ret = None

\* self.is_label_of(&other)
Call_is_label_of ==
    /\ op = "none"
    /\ op' = "is_label_of"
    /\ ret' = is_label_of(input.self, input.other)
    /\ UNCHANGED <<input, serverVars, trieVars>>

\* self.remove_prefix_labels(&other)
Call_remove_prefix_labels ==
    /\ op = "none"
    /\ op' = "remove_prefix_labels"
    /\ ret' = remove_prefix_labels(input.self, input.other)
    /\ UNCHANGED <<input, serverVars, trieVars>>

\* self.labels[0].punycode_decode()
Call_DnsLabel_punycode_decode ==
    /\ op = "none"
    /\ Len(input.self) >= 1
    /\ op' = "DnsLabel_punycode_decode"
    /\ ret' = DnsLabel_punycode_decode(input.self[1], input.oracle)
    /\ UNCHANGED <<input, serverVars, trieVars>>

\* self.punycode_decode()
Call_DnsName_punycode_decode ==
    /\ op = "none"
    /\ op' = "DnsName_punycode_decode"
    /\ ret' = DnsName_punycode_decode(input.self, input.oracle)
    /\ UNCHANGED <<input, serverVars, trieVars>>

NextName ==
    \/ Call_is_label_of
    \/ Call_remove_prefix_labels
    \/ Call_DnsLabel_punycode_decode
    \/ Call_DnsName_punycode_decode

SpecName == InitName /\ [][NextName]_vars

(***************************************************************************)
(* Codec round trips applied to drawn values: SpecCodec.                   *)
(***************************************************************************)
Opcodes == {Query} \cup { OpcodeOther(n) : n \in 0..16 }

RCodes == {NoError, FormatError, ServerFailure} \cup { RCodeOther(n) : n \in 0..16 }

AllFlags ==
    [qr : BOOLEAN, opcode : Opcodes, aa : BOOLEAN, tc : BOOLEAN,
     rd : BOOLEAN, ra : BOOLEAN, rcode : RCodes]

HeaderFlags ==
    { f \in AllFlags :
        /\ f.qr = f.aa /\ f.aa = f.tc /\ f.tc = f.ra
        /\ f.opcode \in {Query, OpcodeOther(0), OpcodeOther(5), OpcodeOther(16)}
        /\ f.rcode \in {NoError, ServerFailure, RCodeOther(0), RCodeOther(9),
                        RCodeOther(16)} }

U16Samples == {0, 1, 258, 65535}

Headers ==
    [id : U16Samples, flags : HeaderFlags, qd_count : U16Samples,
     an_count : {0, 258}, ns_count : {0, 1}, ar_count : {0, 1}]

\* n bytes b
Rep(b, n) == [i \in 1..n |-> b]

\* "a", "bc", the empty label, a byte that is no UTF-8, and labels of 255 and
\* of 256 bytes
CodecLabels ==
    { <<97>>, <<98, 99>>, <<>>, <<255>>, Rep(120, 255), Rep(120, 256) }

CodecNames == UNION { [1..n -> CodecLabels] : n \in 0..MaxLabels }

\* the bytes that follow a serialized value in the input
Trailers == { <<>>, <<0>>, <<3, 97>> }

\* a header and ("a.bc", A, IN); that question and one more byte; a question
\* whose label is no UTF-8; the root name with type and class and more
WireSamples ==
    { <<18, 52, 1, 0, 0, 1, 0, 0, 0, 0, 0, 0, 1, 97, 2, 98, 99, 0, 0, 1, 0, 1>>,
      <<1, 97, 2, 98, 99, 0, 0, 1, 0, 1, 9>>,
      <<2, 255, 254, 0, 0, 16, 0, 1>>,
      <<0, 0, 1, 0, 1, 7>> }

\* every input of a parse is a sample or a sample cut short
WireInputs ==
    UNION { { SubSeq(w, 1, k) : k \in 0..Len(w) } : w \in WireSamples }

CodecInputs ==
         [kind : {"flags"}, f : AllFlags]
    \cup [kind : {"header"}, h : Headers]
    \cup [kind : {"name"}, n : CodecNames, trailing : Trailers]
    \cup [kind : {"bytes"}, b : WireInputs]
    \cup [kind : {"word"}, w : 0..65535]

InitCodec ==
    /\ ServerInit
    /\ NoTrie
    /\ input \in CodecInputs
    /\ op = "none"
    /\ ret = None

RoundTrip(bytes, parsed) == [bytes |-> bytes, parsed |-> parsed]

\* DnsFlags::parse(&f.serialize())
Flags_serialize_parse ==
    /\ op = "none"
    /\ input.kind = "flags"
    /\ op' = "Flags_serialize_parse"
    /\ ret' = RoundTrip(DnsFlags_serialize(input.f),
                        DnsFlags_parse(DnsFlags_serialize(input.f)))
    /\ UNCHANGED <<input, serverVars, trieVars>>

\* DnsHeader::parse(&h.serialize()) (dns/mod.rs:255-256)
Header_serialize_parse ==
    /\ op = "none"
    /\ input.kind = "header"
    /\ op' = "Header_serialize_parse"
    /\ ret' = RoundTrip(DnsHeader_serialize(input.h),
                        DnsHeader_parse(DnsHeader_serialize(input.h)))
    /\ UNCHANGED <<input, serverVars, trieVars>>

\* DnsFlags::parse(&w.to_be_bytes()).unwrap().1.serialize()
Flags_parse_serialize ==
    /\ op = "none"
    /\ input.kind = "word"
    /\ op' = "Flags_parse_serialize"
    /\ ret' = RoundTrip(
                  DnsFlags_serialize(DnsFlags_parse(u16_to_be_bytes(input.w)).val),
                  DnsFlags_parse(u16_to_be_bytes(input.w)))
    /\ UNCHANGED <<input, serverVars, trieVars>>

DnsName_parse_of(bytes) == RoundTrip(bytes, DnsName_parse(bytes))

\* DnsName::parse(&n.serialize()), with more input after the name
Name_serialize_parse ==
    /\ op = "none"
    /\ input.kind = "name"
    /\ op' = "Name_serialize_parse"
    /\ ret' = DnsName_parse_of(DnsName_serialize(input.n) \o input.trailing)
    /\ UNCHANGED <<input, serverVars, trieVars>>

\* DnsQuestion::parse (proto/mod.rs:286-299)
DnsQuestion_parse(i) ==
    LET qname == DnsName_parse(i)
        qtype == be_u16(qname.rest)
        qclass == be_u16(qtype.rest)
    IN  IF ~qname.ok THEN Err
        ELSE IF ~qtype.ok THEN Err
        ELSE IF ~qclass.ok THEN Err
        ELSE Ok(qclass.rest,
                [qname |-> qname.val, qtype |-> qtype.val, qclass |-> qclass.val])

\* DnsHeader::parse(input)
Parse_header ==
    /\ op = "none"
    /\ input.kind = "bytes"
    /\ op' = "Parse_header"
    /\ ret' = RoundTrip(input.b, DnsHeader_parse(input.b))
    /\ UNCHANGED <<input, serverVars, trieVars>>

\* DnsLabel::parse(input)
Parse_label ==
    /\ op = "none"
    /\ input.kind = "bytes"
    /\ op' = "Parse_label"
    /\ ret' = RoundTrip(input.b, DnsLabel_parse(input.b))
    /\ UNCHANGED <<input, serverVars, trieVars>>

\* DnsName::parse(input)
Parse_name ==
    /\ op = "none"
    /\ input.kind = "bytes"
    /\ op' = "Parse_name"
    /\ ret' = RoundTrip(input.b, DnsName_parse(input.b))
    /\ UNCHANGED <<input, serverVars, trieVars>>

\* DnsQuestion::parse(input)
Parse_question ==
    /\ op = "none"
    /\ input.kind = "bytes"
    /\ op' = "Parse_question"
    /\ ret' = RoundTrip(input.b, DnsQuestion_parse(input.b))
    /\ UNCHANGED <<input, serverVars, trieVars>>

NextCodec ==
    \/ Flags_serialize_parse
    \/ Flags_parse_serialize
    \/ Header_serialize_parse
    \/ Name_serialize_parse
    \/ Parse_header
    \/ Parse_label
    \/ Parse_name
    \/ Parse_question

SpecCodec == InitCodec /\ [][NextCodec]_vars

(***************************************************************************)
(* The body of the answer loop applied to drawn answers, long ones         *)
(* included: SpecAnswer.                                                   *)
(***************************************************************************)
\* the lengths of the answers: around the 255 of a length byte and the
\* 65535 of RDLENGTH
AnswerLengths == {0, 1, 255, 256, 257, 600, 65534, 65535, 65536}

\* a parsed question, an answer string of one of the lengths or one of the
\* multi-protocol addresses (an address question is given a short answer),
\* the header of the response while the answers of earlier questions are
\* in, and the packet so far
AnswerInputs ==
    { i \in [kind : {"answer"},
             question : { parse_dns_question(w).val : w \in QuestionWires },
             answer : ProviderAnswers \cup { Some(Rep(120, n)) : n \in AnswerLengths },
             header : { [response_header(<<>>, NoHeader) EXCEPT
                            !.qd_count = 2, !.an_count = n] : n \in {0, 1} },
             packet : { <<>>, <<1, 97, 0, 0, 16, 0, 1>> }] :
        i.question.qtype \in {QTYPE_A, QTYPE_AAAA}
            => i.answer \in ProviderAnswers }

InitAnswer ==
    /\ ServerInit
    /\ NoTrie
    /\ input \in AnswerInputs
    /\ op = "none"
    /\ ret = None

\* the body of the loop over the questions, for the answer the provider
\* returned (dns/mod.rs:153-187)
Call_append_answer ==
    /\ op = "none"
    /\ input.kind = "answer"
    /\ op' = "append_answer"
    /\ ret' = append_answer(input.header, input.packet, input.question,
                            input.answer)
    /\ UNCHANGED <<input, serverVars, trieVars>>

NextAnswer == Call_append_answer

SpecAnswer == InitAnswer /\ [][NextAnswer]_vars

(***************************************************************************)
(* EthersAnswerProvider::get_answer_async (main.rs:19-89) applied to drawn *)
(* questions: SpecProvider.                                                *)
(***************************************************************************)
\* From<String> for DnsName (proto/mod.rs:188-196)
DnsName_from(name) == Split(name, 46)

\* ENS_RECORD_SERVICES, "_atproto" to "org.telegram", each string made a
\* DnsName (main.rs:20-42)
ENS_RECORD_SERVICES ==
    [i \in 1..17 |->
        DnsName_from((<< <<95, 97, 116, 112, 114, 111, 116, 111>>,
       <<97, 118, 97, 116, 97, 114>>,
       <<100, 101, 115, 99, 114, 105, 112, 116, 105, 111, 110>>,
       <<100, 105, 115, 112, 108, 97, 121>>,
       <<101, 109, 97, 105, 108>>,
       <<107, 101, 121, 119, 111, 114, 100, 115>>,
       <<109, 97, 105, 108>>,
       <<110, 111, 116, 105, 99, 101>>,
       <<108, 111, 99, 97, 116, 105, 111, 110>>,
       <<112, 104, 111, 110, 101>>,
       <<117, 114, 108>>,
       <<99, 111, 109, 46, 103, 105, 116, 104, 117, 98>>,
       <<99, 111, 109, 46, 112, 101, 101, 112, 101, 116, 104>>,
       <<99, 111, 109, 46, 108, 105, 110, 107, 101, 100, 105, 110>>,
       <<99, 111, 109, 46, 116, 119, 105, 116, 116, 101, 114>>,
       <<105, 111, 46, 107, 101, 121, 98, 97, 115, 101>>,
       <<111, 114, 103, 46, 116, 101, 108, 101, 103, 114, 97, 109>> >>)[i])]

\* binding.iter().filter(|x| x.is_label_of(&question.qname)).next()
first_service(qname) ==
    IF \E i \in 1..Len(ENS_RECORD_SERVICES) : is_label_of(ENS_RECORD_SERVICES[i], qname)
    THEN Some(ENS_RECORD_SERVICES[
             CHOOSE i \in 1..Len(ENS_RECORD_SERVICES) :
                 /\ is_label_of(ENS_RECORD_SERVICES[i], qname)
                 /\ \A j \in 1..(i - 1) : ~is_label_of(ENS_RECORD_SERVICES[j], qname)])
    ELSE None

\* the match on question.qtype, with svcname_dnsrecord_a = "A" and
\* svcname_dnsrecord_aaaa = "AAAA" (main.rs:47-65)
select_service(question) ==
    IF question.qtype = 1 THEN Some(DnsName_from(<<65>>))
    ELSE IF question.qtype = 28 THEN Some(DnsName_from(<<65, 65, 65, 65>>))
    ELSE first_service(question.qname)

\* question.qname.remove_prefix_labels(x).or(Some(question.qname)) (main.rs:70)
subject_name(qname, x) ==
    IF remove_prefix_labels(qname, x).some THEN remove_prefix_labels(qname, x)
    ELSE Some(qname)

\* "avatar", "alice", "eth", "com", "github", "xn--a"
ProviderNames ==
    UNION { [1..n -> { <<97, 118, 97, 116, 97, 114>>, <<97, 108, 105, 99, 101>>, <<101, 116, 104>>, <<99, 111, 109>>, <<103, 105, 116, 104, 117, 98>>, <<120, 110, 45, 45, 97>> }]
            : n \in 1..(MaxLabels + 1) }

ProviderInputs ==
    [kind : {"question"},
     question : [qname : ProviderNames, qtype : {1, 28, 16}, qclass : {1}],
     oracle : Oracles]

\* what resolve_field gives: an error, "" or "hi"
ResolveResults == { Err, Ok(<<>>, <<>>), Ok(<<>>, <<104, 105>>) }

InitProvider ==
    /\ ServerInit
    /\ NoTrie
    /\ input \in ProviderInputs
    /\ op = "none"
    /\ ret = None

\* the arguments of resolve_field, or the return of None by one of the
\* three ? (main.rs:70-73)
resolve_field_call(name, field) ==
    IF ~name.some \/ ~field.some
    THEN /\ op' = "get_answer_async"
         /\ ret' = [call |-> None, answer |-> None]
    ELSE /\ op' = "resolve_field"
         /\ ret' = [call |-> Some([name |-> name.v, field |-> field.v]),
                    answer |-> None]

\* match svc (main.rs:68-77); without a service the result is
\* Err(ErrNoServiceTypeRecognized) and None is returned
match_svc(svc, question, oracle) ==
    IF ~svc.some
    THEN /\ op' = "get_answer_async"
         /\ ret' = [call |-> None, answer |-> None]
    ELSE resolve_field_call(
             IF subject_name(question.qname, svc.v).some
             THEN DnsName_punycode_decode(subject_name(question.qname, svc.v).v,
                                          oracle)
             ELSE None,
             DnsName_punycode_decode(svc.v, oracle))

\* get_answer_async up to the call of resolve_field, or to its return
\* (main.rs:46-73)
Call_get_answer_async ==
    /\ op = "none"
    /\ input.kind = "question"
    /\ match_svc(select_service(input.question), input.question, input.oracle)
    /\ UNCHANGED <<input, serverVars, trieVars>>

\* resolve_field returns: the match on res (main.rs:74-88)
ResolveFieldReturns ==
    /\ op = "resolve_field"
    /\ \E res \in ResolveResults :
         ret' = [ret EXCEPT !.answer =
                    IF res.ok /\ Len(res.val) > 0 THEN Some(res.val) ELSE None]
    /\ op' = "get_answer_async"
    /\ UNCHANGED <<input, serverVars, trieVars>>

NextProvider ==
    \/ Call_get_answer_async
    \/ ResolveFieldReturns

SpecProvider == InitProvider /\ [][NextProvider]_vars

(***************************************************************************)
(* RuleTrie (dns/rule_trie/mod.rs).  A RuleTrie is the function of its     *)
(* HashMap, from RuleTrieKey to RuleTrieNode; the empty map is <<>>.       *)
(***************************************************************************)
Wildcard == [tag |-> "Wildcard", label |-> <<>>]
Label(l) == [tag |-> "Label", label |-> l]

Continue(t) == [kind |-> "Continue", trie |-> t, elem |-> 0]
Elem(v) == [kind |-> "Elem", trie |-> <<>>, elem |-> v]

\* the closure of From<String> for RuleTrieKeyString (rule_trie/mod.rs:20-29)
RuleTrieKey_from(stop_processing_wildcards, x) ==
    IF x = <<42>> /\ ~stop_processing_wildcards THEN Wildcard ELSE Label(x)

\* .map(|x| (false, x)).map(closure): the flag of every element is false
RuleTrieKeyString_from_parts(parts) ==
    [i \in 1..Len(parts) |-> RuleTrieKey_from(FALSE, parts[i])]

\* From<String> for RuleTrieKeyString (rule_trie/mod.rs:18-33)
RuleTrieKeyString_from(string) == RuleTrieKeyString_from_parts(Split(string, 46))

\* node.insert(..) on a vacant entry
entry_insert(t, k, node) == (k :> node) @@ t

\* the result of trie.insert(keyfrag, value) on the trie of a Continue node
insert_into_continue(t, k, r) ==
    [ok |-> r.ok, trie |-> [t EXCEPT ![k] = Continue(r.trie)]]

\* variant of insert: a label is refused at a level that already has a
\* Wildcard entry
RECURSIVE insert_refuses_shadowed(_, _, _)
insert_refuses_shadowed(t, key, value) ==
    IF key = <<>> THEN [ok |-> TRUE, trie |-> t]
    ELSE IF Head(key) \in DOMAIN t
    THEN IF t[Head(key)].kind = "Continue"
         THEN insert_into_continue(t, Head(key),
                  insert_refuses_shadowed(t[Head(key)].trie, Tail(key), value))
         ELSE [ok |-> FALSE, trie |-> t]
    ELSE IF Wildcard \in DOMAIN t
    THEN [ok |-> FALSE, trie |-> t]
    ELSE IF Len(key) = 1
    THEN [ok |-> TRUE, trie |-> entry_insert(t, Head(key), Elem(value))]
    ELSE insert_refuses_shadowed(entry_insert(t, Head(key), Continue(<<>>)),
                                 key, value)

\* variant of insert: the entry of an occupied Elem is written before the
\* error is returned
RECURSIVE insert_writes_before_error(_, _, _)
insert_writes_before_error(t, key, value) ==
    IF key = <<>> THEN [ok |-> TRUE, trie |-> t]
    ELSE IF Head(key) \in DOMAIN t
    THEN IF t[Head(key)].kind = "Continue"
         THEN insert_into_continue(t, Head(key),
                  insert_writes_before_error(t[Head(key)].trie, Tail(key), value))
         ELSE [ok |-> FALSE,
               trie |-> [t EXCEPT ![Head(key)] =
                            IF Len(key) = 1 THEN Elem(value) ELSE Continue(<<>>)]]
    ELSE IF Len(key) = 1
    THEN [ok |-> TRUE, trie |-> entry_insert(t, Head(key), Elem(value))]
    ELSE insert_writes_before_error(entry_insert(t, Head(key), Continue(<<>>)),
                                    key, value)

\* RuleTrie::insert (rule_trie/mod.rs:108-145)
RECURSIVE insert(_, _, _)
insert(t, key, value) ==
    IF key = <<>> THEN [ok |-> TRUE, trie |-> t]
    ELSE IF Head(key) \in DOMAIN t
    THEN IF t[Head(key)].kind = "Continue"
         THEN insert_into_continue(t, Head(key),
                  insert(t[Head(key)].trie, Tail(key), value))
         ELSE [ok |-> FALSE, trie |-> t]
    ELSE IF Len(key) = 1
    THEN [ok |-> TRUE, trie |-> entry_insert(t, Head(key), Elem(value))]
    ELSE insert(entry_insert(t, Head(key), Continue(<<>>)), key, value)

\* variant of get_node: the Wildcard entry of a level is looked at first
get_node_wildcard_first(t, key_left_frag) ==
    IF Wildcard \in DOMAIN t THEN Some(t[Wildcard])
    ELSE IF key_left_frag \in DOMAIN t THEN Some(t[key_left_frag])
    ELSE None

\* the node get looks at for one key fragment (rule_trie/mod.rs:153-160)
get_node(t, key_left_frag) ==
    IF key_left_frag \in DOMAIN t THEN Some(t[key_left_frag])
    ELSE IF Wildcard \in DOMAIN t THEN Some(t[Wildcard])
    ELSE None

\* variant of get: when the entry of the label itself gives no value the
\* Wildcard entry of the level is tried
RECURSIVE get_backtracking(_, _)
get_backtracking_wildcard(t, key) ==
    IF Wildcard \notin DOMAIN t THEN None
    ELSE IF t[Wildcard].kind = "Elem" THEN Some(t[Wildcard].elem)
    ELSE get_backtracking(t[Wildcard].trie, Tail(key))

get_backtracking_exact(t, key, found) ==
    IF found.some THEN found ELSE get_backtracking_wildcard(t, key)

get_backtracking(t, key) ==
    IF key = <<>> THEN None
    ELSE IF Head(key) \notin DOMAIN t THEN get_backtracking_wildcard(t, key)
    ELSE IF t[Head(key)].kind = "Elem" THEN Some(t[Head(key)].elem)
    ELSE get_backtracking_exact(t, key,
             get_backtracking(t[Head(key)].trie, Tail(key)))

\* RuleTrie::get (rule_trie/mod.rs:148-176)
RECURSIVE get(_, _)
\* variant of get_match: an Elem is a match only for a key with no element
\* left
get_match_whole_key(node, keyfrag) ==
    IF ~node.some THEN None
    ELSE IF node.v.kind = "Continue" THEN get(node.v.trie, keyfrag)
    ELSE IF node.v.kind = "Elem" /\ keyfrag = <<>> THEN Some(node.v.elem)
    ELSE None

RECURSIVE get_match(_, _)
get_match(node, keyfrag) ==
    IF ~node.some THEN None
    ELSE IF node.v.kind = "Continue" THEN get(node.v.trie, keyfrag)
    ELSE IF node.v.kind = "Elem" THEN Some(node.v.elem)
    ELSE None

get(t, key) ==
    IF key = <<>> THEN None
    ELSE get_match(get_node(t, Head(key)), Tail(key))

(***************************************************************************)
(* Rules inserted into a RuleTrie and names looked up in it: SpecTrie.     *)
(***************************************************************************)
MaxInserts == 3

\* "a", "b", "*"
Tokens == << <<97>>, <<98>>, <<42>> >>

\* the rules of one and of two tokens, each with a value of its own
ShortRules ==
         { [string |-> Tokens[i], value |-> i] : i \in 1..3 }
    \cup { [string |-> Tokens[i] \o <<46>> \o Tokens[j], value |-> 10 * i + j] :
             i \in 1..3, j \in 1..3 }

\* "foo.bar.baz", "*.foo.xyz", "*.*.xyz", "*.*.foo.xyz", "*.zxcv.foo.xyz"
\* (rule_trie/mod.rs:188-194)
TestRules ==
    { [string |-> <<102, 111, 111, 46, 98, 97, 114, 46, 98, 97, 122>>, value |-> 1],
      [string |-> <<42, 46, 102, 111, 111, 46, 120, 121, 122>>, value |-> 69],
      [string |-> <<42, 46, 42, 46, 120, 121, 122>>, value |-> 80000],
      [string |-> <<42, 46, 42, 46, 102, 111, 111, 46, 120, 121, 122>>, value |-> 420],
      [string |-> <<42, 46, 122, 120, 99, 118, 46, 102, 111, 111, 46, 120, 121, 122>>, value |-> 1337] }

\* "anything.foo.xyz", "a.b.xyz", "x.asdf.foo.xyz", "x.zxcv.foo.xyz", "foo.*",
\* "foo.b.xyz"
TestLookups ==
    { <<97, 110, 121, 116, 104, 105, 110, 103, 46, 102, 111, 111, 46, 120, 121, 122>>,
      <<97, 46, 98, 46, 120, 121, 122>>,
      <<120, 46, 97, 115, 100, 102, 46, 102, 111, 111, 46, 120, 121, 122>>,
      <<120, 46, 122, 120, 99, 118, 46, 102, 111, 111, 46, 120, 121, 122>>,
      <<102, 111, 111, 46, 42>>,
      <<102, 111, 111, 46, 98, 46, 120, 121, 122>> }

Rules(u) == IF u = "short" THEN ShortRules ELSE TestRules

Lookups(u) ==
    IF u = "short" THEN { r.string : r \in ShortRules }
    ELSE TestLookups \cup { r.string : r \in TestRules }

\* how many rules are inserted at most
MaxRules(u) == IF u = "short" THEN MaxInserts ELSE Cardinality(TestRules)

InitTrie ==
    /\ ServerInit
    /\ trie = <<>>
    /\ log = <<>>
    /\ universe \in {"short", "test"}
    /\ input = NoInput
    /\ op = "none"
    /\ ret = None

InsertReturns(rule, key, r) ==
    /\ trie' = r.trie
    /\ log' = Append(log, [string |-> rule.string, key |-> key,
                           value |-> rule.value, ok |-> r.ok])
    /\ op' = "insert"
    /\ input' = [kind |-> "trie", string |-> rule.string, value |-> rule.value]
    /\ ret' = [key |-> key, ok |-> r.ok, found |-> None]

InsertKey(rule, key) == InsertReturns(rule, key, insert(trie, key, rule.value))

\* trie.insert(string.into(), value) (rule_trie/mod.rs:188); the rules are
\* inserted before the first lookup
Insert ==
    /\ op # "get"
    /\ Len(log) < MaxRules(universe)
    /\ \E rule \in Rules(universe) :
         InsertKey(rule, RuleTrieKeyString_from(rule.string))
    /\ UNCHANGED <<serverVars, universe>>

GetKey(string, key) ==
    /\ op' = "get"
    /\ input' = [kind |-> "trie", string |-> string, value |-> 0]
    /\ ret' = [key |-> key, ok |-> TRUE, found |-> get(trie, key)]

\* trie.get(string.into()) (rule_trie/mod.rs:195)
Get ==
    /\ op # "get"
    /\ \E string \in Lookups(universe) :
         GetKey(string, RuleTrieKeyString_from(string))
    /\ UNCHANGED <<serverVars, trieVars>>

NextTrie ==
    \/ Insert
    \/ Get

SpecTrie == InitTrie /\ [][NextTrie]_vars

(***************************************************************************)
(* Properties of the response builder and the accept loop (Spec).          *)
(***************************************************************************)
Finished == pc \in {"send", "sent"}

HeaderParsed == Len(data) >= 12

\* the step in which the provider call for question qi returns
AnswerStep == pc = "await" /\ returned' = returned + 1

\* C1: when the provider returns an answer string of n <= 255 bytes for a
\* TXT question, exactly one record NAME | TYPE=16 | CLASS=1 | TTL=300 |
\* RDLENGTH=n+1 | n | answer bytes is appended and an_count grows by 1; a
\* packet with one such question ends with an_count 1 and more than 12 bytes.
C1_TxtAnswerRecord ==
    [][ ( /\ AnswerStep
          /\ questions[qi].qtype = 16
          /\ answers'[returned'].some
          /\ Len(answers'[returned'].v) <= 255 )
        => /\ response_packet' =
                  response_packet
               \o DnsName_serialize(questions[qi].qname)
               \o <<0, 16, 0, 1, 0, 0, 1, 44>>
               \o << (Len(answers'[returned'].v) + 1) \div 256,
                     (Len(answers'[returned'].v) + 1) % 256 >>
               \o <<Len(answers'[returned'].v)>>
               \o answers'[returned'].v
           /\ header'.an_count = header.an_count + 1
           /\ (Len(questions) = 1
                 => /\ pc' = "send"
                    /\ header'.an_count = 1
                    /\ SubSeq(result', 7, 8) = <<0, 1>>
                    /\ Len(result') > 12) ]_vars

C1_Witness ==
    /\ pc = "send"
    /\ Len(questions) = 1
    /\ questions[1].qtype = 16
    /\ answers = << Some(<<104, 105>>) >>
    /\ header.an_count = 1
    /\ Len(result) > 12
    /\ SubSeq(result, Len(result) - 4, Len(result)) = <<0, 3, 2, 104, 105>>

\* C2: when the provider returned no value for every question (or there is
\* no question), the response has an_count 0 and is the 12-byte header
\* followed by the echoed questions only; with no question it is 12 bytes.
C2_NoAnswerResponse ==
    ( /\ Finished
      /\ HeaderParsed
      /\ \A i \in 1..Len(answers) : ~answers[i].some )
    => /\ header.an_count = 0
       /\ SubSeq(result, 7, 8) = <<0, 0>>
       /\ Len(result) = 12 + Len(serialize_questions(questions))
       /\ SubSeq(result, 13, Len(result)) = serialize_questions(questions)
       /\ (questions = <<>> => Len(result) = 12)

C2_Witness ==
    /\ pc = "send"
    /\ Len(questions) = 2
    /\ questions[1].qtype = 16
    /\ answers = <<None, None>>
    /\ Len(result) = 12 + Len(serialize_questions(questions))

\* C3: every response has, in its 12 header bytes, the id of the request,
\* qr=1, opcode=0, aa=0, tc=0, rd as in the request, ra=1, z=0, rcode=0,
\* qd_count = number of parsed questions and ns_count = ar_count = 0.
C3_ResponseHeader ==
    (Finished /\ result # <<>>)
    => /\ Len(result) >= 12
       /\ SubSeq(result, 1, 2) = SubSeq(data, 1, 2)
       /\ result[3] = 128 + (data[3] % 2)
       /\ result[4] = 128
       /\ result[5] * 256 + result[6] = Len(questions)
       /\ SubSeq(result, 9, 12) = <<0, 0, 0, 0>>
       /\ header.flags = [qr |-> TRUE, opcode |-> Query, aa |-> FALSE,
                          tc |-> FALSE, rd |-> (data[3] % 2 = 1), ra |-> TRUE,
                          rcode |-> NoError]

C3_Witness ==
    /\ pc = "send"
    /\ HeaderParsed
    /\ SubSeq(data, 1, 4) = <<255, 255, 255, 255>>
    /\ SubSeq(data, 7, 12) = <<0, 7, 0, 9, 0, 1>>
    /\ data[6] = 3
    /\ Len(questions) = 2
    /\ SubSeq(result, 1, 6) = <<255, 255, 129, 128, 0, 2>>

\* C4: the provider is called once per parsed question, in question order,
\* each call issued only after the one before it has returned (at most one
\* call outstanding), and the response exists only once all have returned.
C4_SequentialProviderCalls ==
    /\ calls = [i \in 1..Len(calls) |-> i]
    /\ Len(calls) <= Len(questions)
    /\ Len(answers) = returned
    /\ Len(calls) - returned \in {0, 1}
    /\ (pc = "await" => Len(calls) = returned + 1 /\ qi = Len(calls) /\ result = <<>>)
    /\ (Finished /\ HeaderParsed
          => Len(calls) = Len(questions) /\ returned = Len(questions))
    /\ (result # <<>> => returned = Len(questions))

C4_Witness ==
    /\ pc = "await"
    /\ Len(questions) = 2
    /\ calls = <<1, 2>>
    /\ returned = 1

\* C5: handle_dns_packet returns the empty byte sequence for a datagram
\* shorter than the 12 header bytes, and the accept loop sends nothing for
\* an empty result.
C5_NoResponseOnHeaderError ==
    /\ (Finished /\ ~HeaderParsed => result = <<>>)
    /\ (pc = "sent" /\ result = <<>> => sent = None)

C5_Witness ==
    /\ pc = "sent"
    /\ Len(data) = 11
    /\ result = <<>>
    /\ sent = None

(***************************************************************************)
(* Properties of DnsName and DnsLabel (SpecName).                          *)
(***************************************************************************)
\* a is the first / the last Len(a) labels of b
IsLeading(a, b) == Len(a) <= Len(b) /\ SubSeq(b, 1, Len(a)) = a

IsTrailing(a, b) == Len(a) <= Len(b) /\ SubSeq(b, Len(b) - Len(a) + 1, Len(b)) = a

\* C6 as stated: is_label_of(self, other) is true iff the labels of self are
\* the trailing labels of other.
C6_AsStated ==
    op = "is_label_of" => (ret <=> IsTrailing(input.self, input.other))

\* C6 amended: is_label_of(self, other) is true iff the labels of self are
\* the leading labels of other, byte for byte; it is true for an empty self.
C6_IsLabelOfLeading ==
    op = "is_label_of"
    => /\ ret <=> IsLeading(input.self, input.other)
       /\ (input.self = <<>> => ret)

C6_Witness ==
    /\ op = "is_label_of"
    /\ input.self = << <<97>> >>
    /\ input.other = << <<97>>, <<98>> >>
    /\ ret

\* C7 as stated: remove_prefix_labels(self, prefix) returns the labels of
\* self that precede the trailing labels prefix, and no value when prefix is
\* not the trailing labels of self.
C7_AsStated ==
    op = "remove_prefix_labels"
    => ret = IF IsTrailing(input.other, input.self)
             THEN Some(SubSeq(input.self, 1, Len(input.self) - Len(input.other)))
             ELSE None

\* the expected decoding of one label: the raw bytes as UTF-8 unless the
\* label starts with "xn--"
ExpectedLabelDecode(label, oracle) ==
    IF IsAce(label) THEN DnsLabel_punycode_decode(label, oracle)
    ELSE String_from_utf8(label)

ExpectedNameDecode(labels, oracle) ==
    IF \E i \in 1..Len(labels) : ~ExpectedLabelDecode(labels[i], oracle).some
    THEN None
    ELSE Some(join([i \in 1..Len(labels) |-> ExpectedLabelDecode(labels[i], oracle).v],
                   <<46>>))

\* C8 as stated: punycode_decode of a label without the prefix "xn--" is
\* exactly the label's bytes as UTF-8 (no value only for invalid UTF-8), and
\* punycode_decode of a name is the per-label results joined with ".", or
\* no value if a label has none.
C8_AsStated ==
    /\ (op = "DnsLabel_punycode_decode" /\ ~IsAce(input.self[1])
          => ret = String_from_utf8(input.self[1]))
    /\ (op = "DnsName_punycode_decode"
          => ret = ExpectedNameDecode(input.self, input.oracle))

(***************************************************************************)
(* Properties of the codec round trips (SpecCodec).                        *)
(***************************************************************************)
\* the Opcode / RCode values that From<u16> yields for a 4-bit field
CanonicalOpcode(o) == o = Query \/ (o.tag = "Other" /\ o.code >= 1 /\ o.code <= 15)

CanonicalRCode(r) ==
    \/ r \in {NoError, FormatError, ServerFailure}
    \/ (r.tag = "Other" /\ r.code >= 3 /\ r.code <= 15)

\* C9 as stated: parse(serialize(f)) = f for all booleans and every
\* Opcode::Other(n), RCode::Other(n) with n up to 15 (and the named variants).
C9_AsStated ==
    ( /\ op = "Flags_serialize_parse"
      /\ input.f.opcode.code <= 15
      /\ input.f.rcode.code <= 15 )
    => ret.parsed.ok /\ ret.parsed.val = input.f

\* C9 amended: parse(serialize(f)) = f for all booleans, the named variants,
\* Opcode::Other(n) with 1 <= n <= 15 and RCode::Other(n) with 3 <= n <= 15.
C9_FlagsRoundTrip ==
    ( /\ op = "Flags_serialize_parse"
      /\ CanonicalOpcode(input.f.opcode)
      /\ CanonicalRCode(input.f.rcode) )
    => /\ ret.parsed.ok
       /\ ret.parsed.val = input.f
       /\ ret.parsed.rest = <<>>

C9_Witness ==
    /\ op = "Flags_serialize_parse"
    /\ input.f = [qr |-> TRUE, opcode |-> OpcodeOther(15), aa |-> TRUE,
                  tc |-> TRUE, rd |-> TRUE, ra |-> TRUE, rcode |-> RCodeOther(15)]
    /\ ret.bytes = <<255, 143>>
    /\ ret.parsed.val = input.f

\* the 12 bytes of a header, every integer with its high byte first
BigEndianHeader(bytes, h) ==
    /\ Len(bytes) = 12
    /\ bytes[1] * 256 + bytes[2] = h.id
    /\ bytes[3] \div 128 = B2N(h.flags.qr)
    /\ bytes[3] % 2 = B2N(h.flags.rd)
    /\ bytes[4] \div 128 = B2N(h.flags.ra)
    /\ bytes[5] * 256 + bytes[6] = h.qd_count
    /\ bytes[7] * 256 + bytes[8] = h.an_count
    /\ SubSeq(bytes, 9, 12) = <<0, 0, 0, 0>>

\* C10 as stated: for every header h with ns_count = ar_count = 0,
\* parse(serialize(h)) returns h with no input left, and serialize(h) is 12
\* bytes, big-endian.
C10_AsStated ==
    ( /\ op = "Header_serialize_parse"
      /\ input.h.ns_count = 0
      /\ input.h.ar_count = 0 )
    => /\ ret.parsed.ok
       /\ ret.parsed.val = input.h
       /\ ret.parsed.rest = <<>>
       /\ BigEndianHeader(ret.bytes, input.h)

\* C10 amended: the same for every such header whose opcode and rcode are
\* values that DnsFlags::parse yields (Other(n) only for a code without a
\* named variant, at most 15).
C10_HeaderRoundTrip ==
    ( /\ op = "Header_serialize_parse"
      /\ input.h.ns_count = 0
      /\ input.h.ar_count = 0
      /\ CanonicalOpcode(input.h.flags.opcode)
      /\ CanonicalRCode(input.h.flags.rcode) )
    => /\ ret.parsed.ok
       /\ ret.parsed.val = input.h
       /\ ret.parsed.rest = <<>>
       /\ BigEndianHeader(ret.bytes, input.h)

C10_Witness ==
    /\ op = "Header_serialize_parse"
    /\ input.h.id = 258
    /\ input.h.qd_count = 65535
    /\ input.h.an_count = 258
    /\ input.h.ns_count = 0
    /\ input.h.ar_count = 0
    /\ input.h.flags.opcode = OpcodeOther(5)
    /\ input.h.flags.rcode = RCodeOther(9)
    /\ input.h.flags.rd
    /\ ret.bytes = <<1, 2, 41, 9, 255, 255, 1, 2, 0, 0, 0, 0>>
    /\ ret.parsed.val = input.h

\* C11: for every DnsName n whose labels are all non-empty and at most 255
\* bytes, DnsName::parse(DnsName::serialize(n)) returns n and the input that
\* follows the terminating zero byte; the empty label that ends the name is
\* not among the labels.
C11_NameRoundTrip ==
    ( /\ op = "Name_serialize_parse"
      /\ \A k \in 1..Len(input.n) : input.n[k] # <<>> /\ Len(input.n[k]) <= 255 )
    => /\ ret.parsed = Ok(input.trailing, input.n)
       /\ ret.bytes[Len(ret.bytes) - Len(input.trailing)] = 0
       /\ \A k \in 1..Len(ret.parsed.val) : ret.parsed.val[k] # <<>>

C11_Witness ==
    /\ op = "Name_serialize_parse"
    /\ input.n = << <<97>>, Rep(120, 255) >>
    /\ input.trailing = <<3, 97>>
    /\ ret.parsed.ok
    /\ ret.parsed.rest = <<3, 97>>
    /\ Len(ret.parsed.val) = 2

\* the position of the zero byte that ends the name starting at pos, or 0
\* when the input ends before it
RECURSIVE NameEnd(_, _)
NameEnd(b, pos) ==
    IF pos > Len(b) THEN 0
    ELSE IF b[pos] = 0 THEN pos
    ELSE NameEnd(b, pos + 1 + b[pos])

\* the labels of the name at the start of b, whose zero byte is at position e
RECURSIVE LabelsUpTo(_, _, _)
LabelsUpTo(b, pos, e) ==
    IF pos >= e THEN <<>>
    ELSE <<SubSeq(b, pos + 1, pos + b[pos])>> \o LabelsUpTo(b, pos + 1 + b[pos], e)

IsParse == op \in {"Parse_header", "Parse_label", "Parse_name", "Parse_question"}

\* whether the input holds all the bytes the value parsed by op needs
EnoughBytes(b) ==
    CASE op = "Parse_header" -> Len(b) >= 12
      [] op = "Parse_label" -> Len(b) >= 1 /\ Len(b) >= 1 + b[1]
      [] op = "Parse_name" -> NameEnd(b, 1) # 0
      [] op = "Parse_question" -> NameEnd(b, 1) # 0 /\ Len(b) >= NameEnd(b, 1) + 4

\* the labels op reads from the input when the input holds enough bytes
LabelsRead(b) ==
    CASE op = "Parse_label" -> <<SubSeq(b, 2, 1 + b[1])>>
      [] op = "Parse_name" -> LabelsUpTo(b, 1, NameEnd(b, 1))
      [] op = "Parse_question" -> LabelsUpTo(b, 1, NameEnd(b, 1))
      [] OTHER -> <<>>

IsBytes(s) == \A k \in 1..Len(s) : s[k] \in Byte

\* C20 as stated: parse fails when insufficient bytes remain and when a
\* label is not valid UTF-8; serialize never fails.
C20_AsStated ==
    /\ (IsParse /\ ~EnoughBytes(input.b) => ~ret.parsed.ok)
    /\ ( ( /\ IsParse
           /\ EnoughBytes(input.b)
           /\ \E k \in 1..Len(LabelsRead(input.b)) :
                  ~Utf8Valid(LabelsRead(input.b)[k]) )
         => ~ret.parsed.ok )
    /\ (op = "Name_serialize_parse" => IsBytes(ret.bytes))

\* C20: parse fails exactly when insufficient bytes remain (header shorter
\* than 12 bytes, label length byte larger than the bytes left, missing
\* terminating zero, missing qtype/qclass); the content of a label is not
\* examined, so a label that is not valid UTF-8 parses; serialize never fails.
C20_ParseFailsOnShortInputOnly ==
    /\ (IsParse => (ret.parsed.ok <=> EnoughBytes(input.b)))
    /\ ( (op \in {"Parse_name", "Parse_question"} /\ EnoughBytes(input.b))
         => /\ ret.parsed.rest =
                   SubSeq(input.b,
                          NameEnd(input.b, 1) + 1
                            + (IF op = "Parse_question" THEN 4 ELSE 0),
                          Len(input.b))
            /\ LabelsRead(input.b) =
                   (IF op = "Parse_question" THEN ret.parsed.val.qname
                    ELSE ret.parsed.val) )
    /\ (op \in {"Name_serialize_parse", "Header_serialize_parse",
                "Flags_serialize_parse"} => IsBytes(ret.bytes))

C20_Witness ==
    /\ op = "Parse_question"
    /\ input.b = <<2, 255, 254, 0, 0, 16, 0, 1>>
    /\ ret.parsed = Ok(<<>>, [qname |-> << <<255, 254>> >>, qtype |-> 16, qclass |-> 1])

(***************************************************************************)
(* Properties of RuleTrie (SpecTrie).                                      *)
(***************************************************************************)
\* the key paths that end at an Elem of the trie, with their values
RECURSIVE Paths(_)
Paths(t) ==
    UNION { IF t[k].kind = "Elem"
            THEN { [key |-> <<k>>, value |-> t[k].elem] }
            ELSE { [key |-> <<k>> \o p.key, value |-> p.value] :
                     p \in Paths(t[k].trie) } :
            k \in DOMAIN t }

\* the rules of P that have x at level i
AtLevel(P, i, x) == { p \in P : Len(p.key) >= i /\ p.key[i] = x }

\* the rules of P kept at level i for the label x: those with x itself at
\* that level, and the ones with a Wildcard there only when there is none
Preferred(P, i, x) ==
    IF AtLevel(P, i, x) # {} THEN AtLevel(P, i, x) ELSE AtLevel(P, i, Wildcard)

\* the value found for key among the rules P, level after level from level i
RECURSIVE Lookup(_, _, _)
LookupIn(C, key, i) ==
    IF C = {} THEN None
    ELSE IF \E p \in C : Len(p.key) = i
    THEN Some((CHOOSE p \in C : Len(p.key) = i).value)
    ELSE Lookup(C, key, i + 1)

Lookup(P, key, i) ==
    IF i > Len(key) THEN None ELSE LookupIn(Preferred(P, i, key[i]), key, i)

\* insert(string, value) has returned Ok
Inserted(string, value) ==
    \E i \in 1..Len(log) :
        log[i].string = string /\ log[i].value = value /\ log[i].ok

\* C12: get prefers, at each level, the entry of the current label and uses
\* the Wildcard entry of that level only when there is none; with
\* "foo.bar.baz"->1, "*.foo.xyz"->69, "*.*.xyz"->80000 inserted,
\* get("anything.foo.xyz") is 69 and get("a.b.xyz") is 80000, and with
\* "*.*.foo.xyz"->420 and "*.zxcv.foo.xyz"->1337 also inserted,
\* get("x.asdf.foo.xyz") is 420 and get("x.zxcv.foo.xyz") is 1337.
C12_GetPrefersExact ==
    op = "get"
    => /\ ret.found = Lookup(Paths(trie), ret.key, 1)
       /\ ( ( /\ Inserted(<<102, 111, 111, 46, 98, 97, 114, 46, 98, 97, 122>>, 1)
              /\ Inserted(<<42, 46, 102, 111, 111, 46, 120, 121, 122>>, 69)
              /\ Inserted(<<42, 46, 42, 46, 120, 121, 122>>, 80000) )
            => /\ (input.string = <<97, 110, 121, 116, 104, 105, 110, 103, 46, 102, 111, 111, 46, 120, 121, 122>> => ret.found = Some(69))
               /\ (input.string = <<97, 46, 98, 46, 120, 121, 122>> => ret.found = Some(80000))
               /\ ( ( /\ Inserted(<<42, 46, 42, 46, 102, 111, 111, 46, 120, 121, 122>>, 420)
                      /\ Inserted(<<42, 46, 122, 120, 99, 118, 46, 102, 111, 111, 46, 120, 121, 122>>, 1337) )
                    => /\ (input.string = <<120, 46, 97, 115, 100, 102, 46, 102, 111, 111, 46, 120, 121, 122>> => ret.found = Some(420))
                       /\ (input.string = <<120, 46, 122, 120, 99, 118, 46, 102, 111, 111, 46, 120, 121, 122>> => ret.found = Some(1337)) ) )

C12_Witness ==
    /\ op = "get"
    /\ Len(log) = 5
    /\ \A i \in 1..5 : log[i].ok
    /\ Inserted(<<42, 46, 42, 46, 120, 121, 122>>, 80000)
    /\ Inserted(<<42, 46, 122, 120, 99, 118, 46, 102, 111, 111, 46, 120, 121, 122>>, 1337)
    /\ Inserted(<<42, 46, 42, 46, 102, 111, 111, 46, 120, 121, 122>>, 420)
    /\ input.string = <<120, 46, 122, 120, 99, 118, 46, 102, 111, 111, 46, 120, 121, 122>>
    /\ ret.found = Some(1337)

IsStrictPrefix(a, b) == Len(a) < Len(b) /\ SubSeq(b, 1, Len(a)) = a

\* C13: insert returns an error when the key path equals an already
\* inserted key path or strictly extends an inserted key; inserting the
\* same key path twice fails on the second insert.
C13_AsStated ==
    \A i \in 1..Len(log) : \A j \in 1..Len(log) :
        ( /\ i < j
          /\ log[i].ok
          /\ (log[j].key = log[i].key \/ IsStrictPrefix(log[i].key, log[j].key)) )
        => ~log[j].ok

\* C14: whenever insert(k, v) returns Ok, the last element of k is stored as
\* Elem(v) and a subsequent get(k) returns v; a rule that overlaps an
\* inserted one ("foo.bar" after "foo.bar.baz") is rejected with an error.
C14_AsStated ==
    /\ \A i \in 1..Len(log) :
          log[i].ok
          => /\ [key |-> log[i].key, value |-> log[i].value] \in Paths(trie)
             /\ get(trie, log[i].key) = Some(log[i].value)
    /\ \A i \in 1..Len(log) : \A j \in 1..Len(log) :
          (i < j /\ log[i].ok /\ IsStrictPrefix(log[j].key, log[i].key))
          => ~log[j].ok

\* the keys of the tokens of a string when a "*" is a Wildcard only while no
\* other token has been seen to its left
RECURSIVE KeysLeftToRight(_, _)
KeysLeftToRight(parts, seen_label) ==
    IF parts = <<>> THEN <<>>
    ELSE IF Head(parts) = <<42>> /\ ~seen_label
    THEN <<Wildcard>> \o KeysLeftToRight(Tail(parts), FALSE)
    ELSE <<Label(Head(parts))>> \o KeysLeftToRight(Tail(parts), TRUE)

\* C15: in the conversion of a dot-separated string to a RuleTrieKeyString a
\* "*" token becomes Wildcard only while no non-wildcard label has been
\* consumed to its left, and Label("*") after the first concrete label.
C15_AsStated ==
    op \in {"insert", "get"}
    => ret.key = KeysLeftToRight(Split(input.string, 46), FALSE)

(***************************************************************************)
(* More properties of the response builder (Spec).                         *)
(***************************************************************************)
\* the questions read from i when reading stops at the first one of the n
\* that does not parse
RECURSIVE QuestionsBeforeFirstError(_, _, _)
RECURSIVE QuestionsBeforeError(_, _, _)
QuestionsBeforeError(n, r, qs) ==
    IF ~r.ok THEN qs
    ELSE QuestionsBeforeFirstError(n - 1, r.rest, Append(qs, r.val))

QuestionsBeforeFirstError(n, i, qs) ==
    IF n = 0 THEN qs ELSE QuestionsBeforeError(n, parse_dns_question(i), qs)

DeclaredCount == data[5] * 256 + data[6]

AfterHeader == SubSeq(data, 13, Len(data))

\* C16: when question i of the qd_count declared ones does not parse, the
\* questions kept are exactly the i-1 parsed before it, question i and every
\* later one are discarded, and the response is not empty and has
\* qd_count = i-1.
C16_QuestionsBeforeFirstError ==
    (Finished /\ HeaderParsed)
    => /\ questions = QuestionsBeforeFirstError(DeclaredCount, AfterHeader, <<>>)
       /\ Len(questions) <= DeclaredCount
       /\ SubSeq(AfterHeader, 1, Len(serialize_questions(questions)))
            = serialize_questions(questions)
       /\ Len(result) >= 12
       /\ result[5] * 256 + result[6] = Len(questions)

C16_Witness ==
    /\ pc = "send"
    /\ HeaderParsed
    /\ DeclaredCount = 2
    /\ Len(questions) = 1
    /\ Len(AfterHeader) > Len(serialize_questions(questions))
    /\ SubSeq(result, 5, 6) = <<0, 1>>

\* the first protocol of the multi-protocol address the answer parses as
FirstSegment(x) ==
    IF x.ok /\ x.val # <<>> THEN Some(Head(x.val)) ELSE None

FirstSegmentOf(answer) == FirstSegment(Multiaddr_from_str(answer))

\* the bytes the step appends to the body
Appended == Len(response_packet') - Len(response_packet)

HeadLen == Len(DnsName_serialize(questions[qi].qname)) + 8

\* the step appends NAME | TYPE | CLASS=1 | TTL=300 | RDLENGTH | octets of
\* the segment seg and counts one answer
RecordAppended(qtype, rdlength, seg) ==
    /\ response_packet' =
              response_packet
           \o DnsName_serialize(questions[qi].qname)
           \o <<0, qtype, 0, 1, 0, 0, 1, 44>>
           \o <<0, rdlength>>
           \o seg.v.arg
    /\ Len(seg.v.arg) = rdlength
    /\ header'.an_count = header.an_count + 1

AddressRecord(seg) ==
    /\ (questions[qi].qtype = 1 /\ seg.some /\ seg.v.proto = "Ip4"
          => RecordAppended(1, 4, seg))
    /\ (questions[qi].qtype = 28 /\ seg.some /\ seg.v.proto = "Ip6"
          => RecordAppended(28, 16, seg))
    /\ (questions[qi].qtype = 1 => Appended \in {HeadLen, HeadLen + 2 + 4})
    /\ (questions[qi].qtype = 28 => Appended \in {HeadLen, HeadLen + 2 + 16})

\* C17: for an A question whose answer parses as a multi-protocol address
\* with an IPv4 first segment the record NAME | TYPE=1 | CLASS=1 | TTL=300 |
\* RDLENGTH=4 | 4 octets is appended and an_count grows by 1; for an AAAA
\* question with an IPv6 first segment the record has TYPE=28, RDLENGTH=16
\* and the 16 octets.  An A question never gets 16 octets of RDATA, an AAAA
\* question never 4.
C17_AddressRecords ==
    [][ (AnswerStep /\ answers'[returned'].some /\ questions[qi].qtype \in {1, 28})
        => AddressRecord(FirstSegmentOf(answers'[returned'].v)) ]_vars

C17_Witness ==
    /\ pc = "send"
    /\ Len(questions) = 2
    /\ questions[1].qtype = 1
    /\ questions[2].qtype = 28
    /\ answers = << Some(<<47, 105, 112, 52, 47, 49, 48, 46, 48, 46, 48, 46, 50, 53,
                           53, 47, 117, 100, 112, 47, 53, 51>>),
                    Some(<<47, 105, 112, 54, 47, 58, 58, 49, 47, 116, 99, 112, 47,
                           56, 48>>) >>
    /\ header.an_count = 2
    /\ SubSeq(result, Len(result) - 17, Len(result))
         = <<0, 16, 0, 0, 0, 0, 0, 0, 0, 0, 0, 0, 0, 0, 0, 0, 0, 1>>
    /\ \E k \in 13..(Len(result) - 5) :
           SubSeq(result, k, k + 5) = <<0, 4, 10, 0, 0, 255>>

IsAddressQuestion == questions[qi].qtype \in {1, 28}

WantedSegment == IF questions[qi].qtype = 1 THEN "Ip4" ELSE "Ip6"

OnlyRecordHead ==
    /\ header'.an_count = header.an_count
    /\ response_packet' =
              response_packet
           \o DnsName_serialize(questions[qi].qname)
           \o u16_to_be_bytes(questions[qi].qtype)
           \o <<0, 1, 0, 0, 1, 44>>

\* the answer parsed as x is of another shape, an address of fewer than 2
\* segments included
OtherShapeOrShort(x) ==
    \/ ~x.ok
    \/ Len(x.val) < 2
    \/ Head(x.val).proto # WantedSegment

\* the answer parsed as x is of another shape: no address, an address
\* without a segment, or one whose first segment is of another protocol
OtherShape(x) ==
    \/ ~x.ok
    \/ x.val = <<>>
    \/ Head(x.val).proto # WantedSegment

\* C18 as stated: for an A or AAAA question whose answer has any other shape
\* (wrong protocol for the query type, malformed string, fewer than 2
\* segments) an_count is unchanged and NAME, TYPE, CLASS and TTL stay in the
\* packet without RDLENGTH or RDATA.
C18_AsStated ==
    [][ ( /\ AnswerStep
          /\ answers'[returned'].some
          /\ IsAddressQuestion
          /\ OtherShapeOrShort(Multiaddr_from_str(answers'[returned'].v)) )
        => OnlyRecordHead ]_vars

\* C18: for an A or AAAA question whose answer has any other shape (wrong
\* protocol for the query type, malformed string, no segment at all)
\* an_count is unchanged and NAME, TYPE, CLASS and TTL stay in the packet
\* without RDLENGTH or RDATA.
C18_OrphanedRecordHead ==
    [][ ( /\ AnswerStep
          /\ answers'[returned'].some
          /\ IsAddressQuestion
          /\ OtherShape(Multiaddr_from_str(answers'[returned'].v)) )
        => OnlyRecordHead ]_vars

C18_Witness ==
    /\ pc = "send"
    /\ Len(questions) = 1
    /\ questions[1].qtype = 1
    /\ answers = << Some(<<47, 105, 112, 54, 47, 58, 58, 49, 47, 116, 99, 112, 47,
                          56, 48>>) >>
    /\ header.an_count = 0
    /\ SubSeq(result, 7, 8) = <<0, 0>>
    /\ Len(result) = 12 + Len(serialize_questions(questions))
                        + Len(DnsName_serialize(questions[1].qname)) + 8
    /\ SubSeq(result, Len(result) - 7, Len(result)) = <<0, 1, 0, 1, 0, 0, 1, 44>>

\* C19: for a question whose qtype is none of 16, 1, 28 the provider is
\* called once, and whatever it returns the body and an_count are left as
\* they were by that question.
C19_OtherTypeDropped ==
    [][ (AnswerStep /\ questions[qi].qtype \notin {16, 1, 28})
        => /\ response_packet' = response_packet
           /\ header'.an_count = header.an_count
           /\ Cardinality({ k \in 1..Len(calls) : calls[k] = qi }) = 1
           /\ Cardinality({ k \in 1..Len(calls') : calls'[k] = qi }) = 1 ]_vars

C19_Witness ==
    /\ pc = "send"
    /\ Len(questions) = 1
    /\ questions[1].qtype = 255
    /\ calls = <<1>>
    /\ answers = << Some(<<104, 105>>) >>
    /\ header.an_count = 0
    /\ Len(result) = 12 + Len(serialize_questions(questions))

(***************************************************************************)
(* The question section of the response (Spec).                            *)
(***************************************************************************)
\* the position of the last request byte consumed by n questions that start
\* at pos
RECURSIVE ConsumedEnd(_, _, _)
ConsumedEnd(b, pos, n) ==
    IF n = 0 THEN pos - 1 ELSE ConsumedEnd(b, NameEnd(b, pos) + 5, n - 1)

\* the request bytes consumed by question i
ConsumedBy(i) ==
    SubSeq(data, ConsumedEnd(data, 13, i - 1) + 1, ConsumedEnd(data, 13, i))

\* the bytes the answer loop writes for question i
AnswerBytes(i) ==
    append_answer(header, <<>>, questions[i], answers[i]).response_packet

\* the body starts with the request bytes 13..e, and holds nothing else
\* before the first answer is in
EchoedUpTo(e) ==
    /\ e <= Len(data)
    /\ Len(response_packet) >= e - 12
    /\ SubSeq(response_packet, 1, e - 12) = SubSeq(data, 13, e)
    /\ (returned = 0 => Len(response_packet) = e - 12)

\* C21: every parsed question is echoed verbatim: the bytes written to the
\* response question section for question i are the bytes consumed from the
\* request for question i, which serialize_dns_question reproduces from the
\* parsed question, in request order, and all question records precede all
\* answer records.
C21_QuestionsEchoed ==
    /\ (pc \in {"await", "send", "sent"} /\ HeaderParsed)
       => /\ \A i \in 1..Len(questions) :
                 serialize_dns_question(questions[i]) = ConsumedBy(i)
          /\ EchoedUpTo(ConsumedEnd(data, 13, Len(questions)))
    /\ (Finished /\ HeaderParsed)
       => /\ Len(result) = 12 + Len(response_packet)
          /\ SubSeq(result, 13, Len(result)) = response_packet

C21_Witness ==
    /\ pc = "send"
    /\ Len(questions) = 2
    /\ questions[1] # questions[2]
    /\ ConsumedEnd(data, 13, 2) = Len(data)
    /\ SubSeq(result, 13, Len(data)) = SubSeq(data, 13, Len(data))
    /\ Len(AnswerBytes(1)) > 0
    /\ Len(AnswerBytes(2)) > 0
    /\ Len(result) = Len(data) + Len(AnswerBytes(1)) + Len(AnswerBytes(2))


(***************************************************************************)
(* More properties of RuleTrie (SpecTrie).                                 *)
(***************************************************************************)
\* the first n elements of the stored key path p are the ones get follows
\* for key among the paths P: at each level the element of key itself, or
\* the Wildcard when no stored path that agrees with p so far has it
OnDescent(P, p, key, n) ==
    \A i \in 1..n :
        \/ p.key[i] = key[i]
        \/ /\ p.key[i] = Wildcard
           /\ ~\E q \in P : /\ Len(q.key) >= i
                             /\ SubSeq(q.key, 1, i - 1) = SubSeq(p.key, 1, i - 1)
                             /\ q.key[i] = key[i]

\* p is element-wise a prefix of key, a Wildcard standing for any element
WildPrefix(p, key) ==
    /\ Len(p) <= Len(key)
    /\ \A i \in 1..Len(p) : p[i] = key[i] \/ p[i] = Wildcard

GetStopsAtElem(P, key, found) ==
    /\ found.some
         => \E p \in P : p.value = found.v /\ WildPrefix(p.key, key)
    /\ \A p \in P :
          (Len(p.key) <= Len(key) /\ OnDescent(P, p, key, Len(p.key)))
          => found = Some(p.value)
    /\ \A p \in P :
          (Len(p.key) > Len(key) /\ OnDescent(P, p, key, Len(key)))
          => found = None

WordOf(bytes) == bytes[1] * 256 + bytes[2]

\* C23: for every 16-bit flags word w, serialize(parse(w)) has the qr,
\* opcode (all 16 values), aa, tc, rd, ra and rcode (all 16 values) bits of
\* w and 0 in the reserved bits between ra and rcode; the opcode and rcode
\* values without a name are kept by Other(raw).
C23_FlagsWordRoundTrip ==
    op = "Flags_parse_serialize"
    => /\ ret.parsed.ok
       /\ Len(ret.bytes) = 2
       /\ \A k \in 0..15 :
             Bit(WordOf(ret.bytes), k) = (k \notin {4, 5, 6} /\ Bit(input.w, k))
       /\ WordOf(ret.bytes) = input.w - ((input.w \div 16) % 8) * 16
       /\ u16_from_Opcode(ret.parsed.val.opcode) = (input.w \div 2048) % 16
       /\ u16_from_RCode(ret.parsed.val.rcode) = input.w % 16

\* 0xFFFF: opcode 15 and rcode 15 are kept, the reserved bits are cleared
C23_Witness ==
    /\ op = "Flags_parse_serialize"
    /\ input.w = 65535
    /\ ret.parsed.val.opcode = OpcodeOther(15)
    /\ ret.parsed.val.rcode = RCodeOther(15)
    /\ ret.bytes = <<255, 143>>


(***************************************************************************)
(* The TXT record of an answer of any length (SpecAnswer).                 *)
(***************************************************************************)
TxtRecordOf(n, packet) ==
    /\ packet =
              input.packet
           \o DnsName_serialize(input.question.qname)
           \o <<0, 16, 0, 1, 0, 0, 1, 44>>
           \o << ((n + 1) % 65536) \div 256, ((n + 1) % 65536) % 256 >>
           \o <<n % 256>>
           \o input.answer.v
    /\ SubSeq(packet, Len(packet) - n + 1, Len(packet)) = input.answer.v
    /\ (n > 255 => packet[Len(packet) - n] # n)

\* C24: for a TXT answer of n bytes, whatever n, the record has
\* RDLENGTH = (n+1) mod 65536, a TXT length byte = n mod 256 and all n
\* answer bytes; there is no length check, so for n > 255 the length byte is
\* not the number of data bytes written.
C24_TxtRecordAnyLength ==
    (op = "append_answer" /\ input.question.qtype = 16 /\ input.answer.some)
    => /\ TxtRecordOf(Len(input.answer.v), ret.response_packet)
       /\ ret.header.an_count = input.header.an_count + 1

\* 65535 answer bytes: RDLENGTH 0, length byte 255
C24_Witness ==
    /\ op = "append_answer"
    /\ input.question.qtype = 16
    /\ input.answer.some
    /\ Len(input.answer.v) = 65535
    /\ input.packet = <<>>
    /\ Len(ret.response_packet)
         = Len(DnsName_serialize(input.question.qname)) + 8 + 2 + 1 + 65535
    /\ SubSeq(ret.response_packet,
              Len(ret.response_packet) - 65537, Len(ret.response_packet) - 65535)
         = <<0, 0, 255>>


(***************************************************************************)
(* The accept loop (Spec).                                                 *)
(***************************************************************************)
\* nothing of an earlier datagram is left in progress
NothingInProgress ==
    /\ calls = <<>>
    /\ returned = 0
    /\ questions = <<>>
    /\ result = <<>>
    /\ sent = None

\* handle_dns_packet has returned for the datagram in data and its response,
\* when not empty, has been sent
HandledAndSent ==
    /\ pc = "sent"
    /\ returned = Len(calls)
    /\ (HeaderParsed => returned = Len(questions) /\ result # <<>>)
    /\ sent = IF result # <<>> THEN Some(result) ELSE None

\* C25: the accept loop processes one datagram to completion before it
\* reads the next: recv_from happens only after handle_dns_packet has
\* returned for the datagram before and its non-empty response has been
\* sent, so at most one packet and at most one provider call are in progress
\* and the responses leave in the order of arrival.
C25_OneDatagramAtATime ==
    [][ /\ (pc' = "handle" => pc = "recv" /\ NothingInProgress)
        /\ (pc' = "recv" => HandledAndSent)
        /\ (data' # data => pc' \in {"handle", "recv"})
        /\ (sent' # sent /\ sent'.some
              => /\ pc = "send"
                 /\ sent'.v = result
                 /\ SubSeq(result, 1, 2) = SubSeq(data, 1, 2)
                 /\ data' = data)
        /\ Len(calls') - returned' \in {0, 1} ]_vars

C25_Witness ==
    /\ HandledAndSent
    /\ HeaderParsed
    /\ Len(calls) = 2
    /\ sent = Some(result)
    /\ SubSeq(sent.v, 1, 2) = SubSeq(data, 1, 2)


(***************************************************************************)
(* The counts of the response header (Spec).                               *)
(***************************************************************************)
\* b is a whole record for a question whose NAME | TYPE | CLASS | TTL take
\* h bytes: it has RDLENGTH and RDLENGTH bytes of RDATA
WholeRecord(b, h) ==
    /\ Len(b) >= h + 2
    /\ Len(b) = h + 2 + b[h + 1] * 256 + b[h + 2]

\* the questions whose answer bytes are a complete record
CompleteRecords ==
    { i \in 1..Len(questions) :
        WholeRecord(AnswerBytes(i), Len(DnsName_serialize(questions[i].qname)) + 8) }

\* the bytes the step appends to the body are one complete record
AppendsWholeRecord ==
    WholeRecord(SubSeq(response_packet', Len(response_packet) + 1,
                       Len(response_packet')),
                HeadLen)

\* C26: in every response the header an_count is the number of complete
\* answer records (those with RDLENGTH and RDATA) in the answer section, and
\* an_count <= response qd_count = number of parsed questions <= request
\* qd_count, so the u16 an_count never overflows: an_count is 0 before the
\* first answer, a step of the answer loop adds 1 exactly when the bytes it
\* appends are a complete record, and the finished header carries the counts.
C26_AnswerCount ==
    [][ /\ (pc = "handle" /\ HeaderParsed => header'.an_count = 0)
        /\ (AnswerStep
              => header'.an_count
                   = header.an_count + (IF AppendsWholeRecord THEN 1 ELSE 0))
        /\ (pc' = "send" /\ HeaderParsed
              => /\ result'[7] * 256 + result'[8] = header'.an_count
                 /\ result'[5] * 256 + result'[6] = Len(questions')
                 /\ header'.an_count <= Len(questions')
                 /\ Len(questions') <= DeclaredCount
                 /\ DeclaredCount <= 65535) ]_vars

\* two questions, one complete record and one record head without RDATA
C26_Witness ==
    /\ pc = "send"
    /\ HeaderParsed
    /\ DeclaredCount = 3
    /\ Len(questions) = 2
    /\ questions[1].qtype = 1
    /\ answers[1] = Some(<<104, 105>>)
    /\ questions[2].qtype = 16
    /\ answers[2] = Some(<<104, 105>>)
    /\ CompleteRecords = {2}
    /\ SubSeq(result, 5, 8) = <<0, 2, 0, 1>>


\* the step is an insert that returns an error
InsertFails == op' = "insert" /\ Len(log') = Len(log) + 1 /\ ~ret'.ok

\* C27: an insert that returns an error leaves the trie as it was before the
\* call: no Continue node made on the way to the conflict remains, and every
\* get returns what it returned before.
C27_FailedInsertLeavesTrie ==
    [][ InsertFails
        => /\ trie' = trie
           /\ Paths(trie') = Paths(trie)
           /\ \A string \in Lookups(universe) :
                 get(trie', RuleTrieKeyString_from(string))
                   = get(trie, RuleTrieKeyString_from(string)) ]_vars

\* "a" and "b.a" are stored, then "a.b" is refused at the Elem of "a"
C27_Witness ==
    /\ op = "insert"
    /\ universe = "short"
    /\ Len(log) = 3
    /\ log[1].ok
    /\ log[2].ok
    /\ ~log[3].ok
    /\ ~ret.ok
    /\ log[3].string = <<97, 46, 98>>
    /\ Inserted(<<97>>, 1)
    /\ Inserted(<<98, 46, 97>>, 21)
    /\ Paths(trie) = { [key |-> <<Label(<<97>>)>>, value |-> 1],
                       [key |-> <<Label(<<98>>), Label(<<97>>)>>, value |-> 21] }


\* the value of the only stored key path get can end at for key: the one it
\* follows level after level, never a path through the Wildcard of a level
\* that has the label itself
GetFollowsOnePath(P, key, found) ==
    found.some
    => \E p \in P : /\ p.value = found.v
                    /\ Len(p.key) <= Len(key)
                    /\ OnDescent(P, p, key, Len(p.key))

\* a stored key path that matches key through a Wildcard of a level where
\* another stored path has the label of key
MatchesOffDescent(P, p, key) ==
    /\ WildPrefix(p.key, key)
    /\ ~OnDescent(P, p, key, Len(p.key))

\* C28: get follows one greedy path and never backtracks: at a level where
\* the current label has an entry, the Wildcard entry of that level is not
\* consulted, so get returns no value when the branch of the label
\* dead-ends even if a wildcard rule of that level matches the rest of the
\* key: with "foo.bar.baz" and "*.*.xyz" stored, get("foo.b.xyz") returns no
\* value.
C28_GetNeverBacktracks ==
    op = "get"
    => /\ GetFollowsOnePath(Paths(trie), ret.key, ret.found)
       /\ ( ( /\ Inserted(<<102, 111, 111, 46, 98, 97, 114, 46, 98, 97, 122>>, 1)
              /\ Inserted(<<42, 46, 42, 46, 120, 121, 122>>, 80000)
              /\ input.string = <<102, 111, 111, 46, 98, 46, 120, 121, 122>> )
            => ret.found = None )

\* "*.*.xyz" alone gives get("foo.b.xyz") = 80000; once "foo.bar.baz" is
\* stored too the same lookup returns no value
C28_Witness ==
    /\ op = "get"
    /\ universe = "test"
    /\ Len(log) = 2
    /\ log[1].string = <<42, 46, 42, 46, 120, 121, 122>>
    /\ log[1].ok
    /\ log[2].string = <<102, 111, 111, 46, 98, 97, 114, 46, 98, 97, 122>>
    /\ log[2].ok
    /\ input.string = <<102, 111, 111, 46, 98, 46, 120, 121, 122>>
    /\ ret.found = None
    /\ get(insert(<<>>, log[1].key, log[1].value).trie, ret.key) = Some(80000)
    /\ \E p \in Paths(trie) : MatchesOffDescent(Paths(trie), p, ret.key)


(***************************************************************************)
(* The name and the field handed to the resolver (SpecProvider).           *)
(***************************************************************************)
\* the name and the field for the service x found in qname: qname without
\* the labels of x, and x, both as text
ResolverArguments(qname, x, oracle) ==
    [name |-> ExpectedNameDecode(SubSeq(qname, Len(x) + 1, Len(qname)), oracle).v,
     field |-> ExpectedNameDecode(x, oracle).v]

\* C29 as stated: when the provider finds a service name that is a label of
\* the query name (qtype other than A and AAAA), the name it hands to the
\* resolver is the query name without the labels of the service and the
\* field is the service name: avatar.alice.eth with the service "avatar"
\* resolves the field "avatar" of the name "alice.eth".
C29_AsStated ==
    ( /\ op = "resolve_field"
      /\ input.question.qtype \notin {1, 28}
      /\ first_service(input.question.qname).some )
    => ret.call.v = ResolverArguments(input.question.qname,
                                      first_service(input.question.qname).v,
                                      input.oracle)


\* the key paths given to insert so far, with their values
LoggedPaths == { [key |-> log[i].key, value |-> log[i].value] : i \in 1..Len(log) }

\* no key path given to insert is element-wise a prefix of, or equal to,
\* the key path of another insert
PrefixFree ==
    \A i \in 1..Len(log) : \A j \in 1..Len(log) :
        i # j => ~( /\ Len(log[i].key) <= Len(log[j].key)
                    /\ SubSeq(log[j].key, 1, Len(log[i].key)) = log[i].key )

\* the trie of a set of key paths, whatever the order they come in
RECURSIVE TrieOf(_)
TrieOf(P) ==
    [k \in { p.key[1] : p \in P } |->
        IF \E p \in P : p.key = <<k>>
        THEN Elem((CHOOSE p \in P : p.key = <<k>>).value)
        ELSE Continue(TrieOf({ [key |-> Tail(p.key), value |-> p.value] :
                                 p \in { q \in P : q.key[1] = k } }))]

\* C30: for key paths none of which is element-wise a prefix of, or equal
\* to, another, the inserts into an empty trie succeed for every key in any
\* order and give the same trie, so every get returns the same result
\* whatever the order of the inserts.
C30_InsertOrderIndependent ==
    PrefixFree
    => /\ \A i \in 1..Len(log) : log[i].ok
       /\ trie = TrieOf(LoggedPaths)
       /\ Paths(trie) = LoggedPaths
       /\ (op = "get" => ret.found = Lookup(LoggedPaths, ret.key, 1))

\* the five rules of the test, the last one first
C30_Witness ==
    /\ universe = "test"
    /\ op = "get"
    /\ Len(log) = 5
    /\ PrefixFree
    /\ log[1].value = 1337
    /\ log[5].value = 1
    /\ Cardinality(LoggedPaths) = 5
    /\ trie = TrieOf(LoggedPaths)
    /\ input.string = <<120, 46, 97, 115, 100, 102, 46, 102, 111, 111, 46, 120, 121, 122>>
    /\ ret.found = Some(420)

====
